---- MODULE Spec2Model ----
(***************************************************************************)
(* Project-Management-Dashboard backend: the Tasks and Projects sheets,    *)
(* the task and project handlers, the project status/progress derivation   *)
(* (recalcProjectProgress), the subtask cascade inside updateTask and the  *)
(* daily reminder job (sendTaskReminders).                                 *)
(*                                                                         *)
(* A sheet is a sequence of rows, a row a tuple of strings in header       *)
(* order (the Attachments cell is a sequence of characters, so that it     *)
(* can be split).  The JavaScript column r[i] is the cell Cell(r, i).  A   *)
(* request                                                                 *)
(* body is a function from the field names present in the JSON body to     *)
(* strings; an absent field is outside its DOMAIN.                         *)
(***************************************************************************)
EXTENDS Integers, Sequences, FiniteSets

VARIABLES
    tasks,        \* data rows of the "Tasks" sheet (header excluded)
    projects,     \* data rows of the "Projects" sheet (header excluded)
    nextTask,     \* number of task ids generated so far + 1
    nextProject,  \* number of project ids generated so far + 1
    today,        \* index in DayName of the current calendar day
    mail,         \* e-mails dispatched by the latest request or sweep
    ret,          \* what the latest request did and answered
    inflight,     \* the updateTask requests suspended at an await, per slot
    log           \* history of the daily schedule: the days the job ran, the
                  \* tasks it read and the reminders the transport accepted

vars == <<tasks, projects, nextTask, nextProject, today, mail, ret, inflight, log>>

(***************************************************************************)
(* Bounds of the model.                                                    *)
(***************************************************************************)
MaxTasks == 2       \* task ids generated in one behaviour
MaxProjects == 2   \* project ids generated in one behaviour

(***************************************************************************)
(* JavaScript helpers.                                                     *)
(***************************************************************************)
Digit == <<"0", "1", "2", "3", "4", "5", "6", "7", "8", "9">>

\* Number.prototype.toString for a natural number
RECURSIVE toString(_)
toString(n) == IF n < 10 THEN Digit[n + 1]
               ELSE toString(n \div 10) \o Digit[(n % 10) + 1]

\* Number(s) || 0 for the cell of a Progress column
ToNumber(s) == IF \E n \in 0..100 : toString(n) = s
               THEN CHOOSE n \in 0..100 : toString(n) = s
               ELSE 0

\* String.prototype.toLowerCase on the status strings in use
toLowerCase(s) ==
    CASE s = "Completed"   -> "completed"
      [] s = "COMPLETED"   -> "completed"
      [] s = "In Progress" -> "in progress"
      [] s = "Not Started" -> "not started"
      [] s = "Blocked"     -> "blocked"
      [] OTHER             -> s

\* r[i] || ""  (JavaScript index i, 0-based; a missing cell reads as "")
Cell(r, i) == IF (i + 1) \in DOMAIN r THEN r[i + 1] ELSE ""

\* body.f || ""
Field(b, f) == IF f \in DOMAIN b THEN b[f] ELSE ""

\* body.f ?? old
Coalesce(b, f, old) == IF f \in DOMAIN b THEN b[f] ELSE old

\* rows.findIndex((r) => r[0] === id), 0-based, -1 when absent
findIndex(rows, id) ==
    IF \E i \in 1..Len(rows) : Cell(rows[i], 0) = id
    THEN (CHOOSE i \in 1..Len(rows) :
             /\ Cell(rows[i], 0) = id
             /\ \A j \in 1..(i - 1) : Cell(rows[j], 0) # id) - 1
    ELSE -1

(***************************************************************************)
(* googleSheetService: positional writes on a sheet.                       *)
(***************************************************************************)
\* updateRow(sheet, rowNumber, row): rowNumber is the 1-based sheet row,
\* row 1 being the header, so data row k is sheet row k + 1.
updateRow(rows, rowNumber, row) ==
    LET k == rowNumber - 1
    IN IF k \in 1..Len(rows) THEN [rows EXCEPT ![k] = row]
       ELSE rows \o [j \in 1..(k - Len(rows) - 1) |-> <<>>] \o <<row>>

\* deleteRowByIndex(sheet, index): index is 0-based among the data rows;
\* a sheet without data rows is left alone (lines 303-307)
deleteRowByIndex(rows, index) ==
    IF index \in 0..(Len(rows) - 1)
    THEN [k \in 1..(Len(rows) - 1) |->
             IF k <= index THEN rows[k] ELSE rows[k + 1]]
    ELSE rows

(***************************************************************************)
(* taskController: row mapping.                                            *)
(***************************************************************************)
\* The text of the Attachments cell and the names of the attachments are
\* sequences of characters; the empty text is << >>.
\* names.join(", ")
RECURSIVE join(_)
join(names) ==
    IF names = << >> THEN << >>
    ELSE IF Len(names) = 1 THEN names[1]
    ELSE names[1] \o <<",", " ">> \o join(Tail(names))

\* text.split(","): the pieces between the commas, at least one
RECURSIVE split(_)
split(text) ==
    IF \E i \in 1..Len(text) : text[i] = ","
    THEN LET i == CHOOSE k \in 1..Len(text) :
                     text[k] = "," /\ \A j \in 1..(k - 1) : text[j] # ","
         IN << SubSeq(text, 1, i - 1) >> \o split(SubSeq(text, i + 1, Len(text)))
    ELSE << text >>

\* s.trim(): without the spaces at both ends
RECURSIVE trim(_)
trim(s) ==
    IF s # << >> /\ Head(s) = " " THEN trim(Tail(s))
    ELSE IF s # << >> /\ s[Len(s)] = " " THEN trim(SubSeq(s, 1, Len(s) - 1))
    ELSE s

\* row[9] of a task row, the empty text when the row has no such cell
AttachmentsCell(row) == IF Len(row) >= 10 THEN row[10] ELSE << >>

\* taskToRow(t): ID, ProjectID, Title, Description, AssignedTo, StartDate,
\* EndDate, DueDate, Status, Attachments, ParentTaskID
taskToRow(t) ==
    << t.id, t.projectId, t.title, t.description, t.assignedTo,
       t.startDate, t.endDate, t.dueDate,
       IF t.status = "" THEN "Not Started" ELSE t.status,
       join(t.attachments), t.parentTaskId >>

rowToTask(row) ==
    [ id           |-> Cell(row, 0),
      projectId    |-> Cell(row, 1),
      title        |-> Cell(row, 2),
      description  |-> Cell(row, 3),
      assignedTo   |-> Cell(row, 4),
      startDate    |-> Cell(row, 5),
      endDate      |-> Cell(row, 6),
      dueDate      |-> Cell(row, 7),
      status       |-> IF Cell(row, 8) = "" THEN "Not Started" ELSE Cell(row, 8),
      attachments  |-> IF AttachmentsCell(row) = << >> THEN << >>
                       ELSE [i \in 1..Len(split(AttachmentsCell(row))) |->
                                trim(split(AttachmentsCell(row))[i])],
      parentTaskId |-> Cell(row, 10) ]

(***************************************************************************)
(* projectController: row mapping.                                         *)
(***************************************************************************)
\* projectToRow(p); the sheet renders the numeric progress as text
projectToRow(p) ==
    << p.id, p.name, p.owner, p.description, p.startDate, p.endDate,
       IF p.status = "" THEN "Not Started" ELSE p.status,
       toString(p.progress) >>

rowToProject(row) ==
    [ id          |-> Cell(row, 0),
      name        |-> Cell(row, 1),
      owner       |-> Cell(row, 2),
      description |-> Cell(row, 3),
      startDate   |-> Cell(row, 4),
      endDate     |-> Cell(row, 5),
      status      |-> Cell(row, 6),
      progress    |-> ToNumber(Cell(row, 7)) ]

(***************************************************************************)
(* recalcProjectProgress                                                   *)
(***************************************************************************)
\* the filter of lines 78-83: rows of the project that are not subtasks
IsProjectTask(r, projectId) ==
    Cell(r, 1) = projectId /\ Cell(r, 10) = ""

\* (r[8] || "").toLowerCase() === "completed"
IsCompletedRow(r) == toLowerCase(Cell(r, 8)) = "completed"

\* the test for In Progress without toLowerCase()
IsInProgressRow_ExactCase(r) == Cell(r, 8) = "in progress"

\* (r[8] || "").toLowerCase() === "in progress"
IsInProgressRow(r) == toLowerCase(Cell(r, 8)) = "in progress"

\* Math.round((completed / total) * 100)
RoundPercent(completed, total) == ((200 * completed) + total) \div (2 * total)

\* line 90
Progress(completed, total) ==
    IF total = 0 THEN 0 ELSE RoundPercent(completed, total)

\* updatedStatus with the count of In Progress tasks left out of line 118
UpdatedStatus_IgnoresInProgress(total, completed, inProgressTasks) ==
    IF completed = total /\ total # 0 /\ total > 0 THEN "Completed"
    ELSE IF total > 0
         THEN (IF completed > 0 THEN "In Progress" ELSE "Not Started")
         ELSE "Not Started"

\* updatedStatus with the test of line 118 left out: any task starts the project
UpdatedStatus_AnyTaskStarts(total, completed, inProgressTasks) ==
    IF completed = total /\ total # 0 /\ total > 0 THEN "Completed"
    ELSE IF total > 0 THEN "In Progress"
    ELSE "Not Started"

\* lines 109-123, the value of updatedStatus
UpdatedStatus(total, completed, inProgressTasks) ==
    IF completed = total /\ total # 0 /\ total > 0 THEN "Completed"
    ELSE IF total > 0
         THEN (IF completed > 0 \/ inProgressTasks > 0
               THEN "In Progress" ELSE "Not Started")
         ELSE "Not Started"

\* What a call returns and leaves in the Projects sheet.  kind is "null"
\* (no project row, nothing written, null returned), "threw" (an exception
\* left the function before updateRow) or "wrote" (the row was replaced).
Outcome(kind, projectRows, wasJustCompleted, projectName, ownerEmail) ==
    [ kind |-> kind, projects |-> projectRows,
      wasJustCompleted |-> wasJustCompleted,
      projectName |-> projectName, ownerEmail |-> ownerEmail ]

\* WriteProject with the owner left out of newProjectRow
WriteProject_DropsOwner(projectRows, projectIndex, total, completed, inProgressTasks) ==
    LET projRow == projectRows[projectIndex + 1]
        previousStatus == toLowerCase(Cell(projRow, 6))
        wasCompleted == completed = total /\ total # 0
        wasJustCompleted == wasCompleted /\ previousStatus # "completed"
        newProjectRow ==
            << Cell(projRow, 0), Cell(projRow, 1), "",
               Cell(projRow, 3), Cell(projRow, 4), Cell(projRow, 5),
               UpdatedStatus(total, completed, inProgressTasks),
               toString(Progress(completed, total)) >>
        rowNumber == 1 + projectIndex + 1
    IN IF wasCompleted /\ total > 0
       THEN Outcome("threw", projectRows, FALSE, "", "")
       ELSE IF wasJustCompleted
       THEN Outcome("wrote", updateRow(projectRows, rowNumber, newProjectRow),
                    TRUE, Cell(projRow, 1), Cell(projRow, 2))
       ELSE Outcome("wrote", updateRow(projectRows, rowNumber, newProjectRow),
                    FALSE, "", "")

\* lines 100-152, for the project row found on line 94 and the counts of
\* lines 86-89 and 115-117.  `progress` is declared const on line 90, so the
\* assignment `progress = 100` on line 112 throws a TypeError and the
\* function is left before updateRow on line 141.
WriteProject(projectRows, projectIndex, total, completed, inProgressTasks) ==
    LET projRow == projectRows[projectIndex + 1]
        previousStatus == toLowerCase(Cell(projRow, 6))
        wasCompleted == completed = total /\ total # 0
        wasJustCompleted == wasCompleted /\ previousStatus # "completed"
        newProjectRow ==
            << Cell(projRow, 0), Cell(projRow, 1), Cell(projRow, 2),
               Cell(projRow, 3), Cell(projRow, 4), Cell(projRow, 5),
               UpdatedStatus(total, completed, inProgressTasks),
               toString(Progress(completed, total)) >>
        rowNumber == 1 + projectIndex + 1
    IN IF wasCompleted /\ total > 0
       THEN Outcome("threw", projectRows, FALSE, "", "")
       ELSE IF wasJustCompleted
       THEN Outcome("wrote", updateRow(projectRows, rowNumber, newProjectRow),
                    TRUE, Cell(projRow, 1), Cell(projRow, 2))
       ELSE Outcome("wrote", updateRow(projectRows, rowNumber, newProjectRow),
                    FALSE, "", "")

\* recalcProjectProgress raising an error for a project without a row
recalcProjectProgress_ThrowsWithoutProject(taskRows, projectRows, projectId) ==
    LET InProject(r) == IsProjectTask(r, projectId)
        DoneInProject(r) == IsProjectTask(r, projectId) /\ IsCompletedRow(r)
        BusyInProject(r) == IsProjectTask(r, projectId) /\ IsInProgressRow(r)
    IN IF findIndex(projectRows, projectId) = -1
       THEN Outcome("threw", projectRows, FALSE, "", "")
       ELSE WriteProject(projectRows, findIndex(projectRows, projectId),
                         Cardinality({i \in 1..Len(taskRows) : InProject(taskRows[i])}),
                         Cardinality({i \in 1..Len(taskRows) : DoneInProject(taskRows[i])}),
                         Cardinality({i \in 1..Len(taskRows) : BusyInProject(taskRows[i])}))

\* lines 72-98: read and count the task rows, look the project up
recalcProjectProgress(taskRows, projectRows, projectId) ==
    LET InProject(r) == IsProjectTask(r, projectId)
        DoneInProject(r) == IsProjectTask(r, projectId) /\ IsCompletedRow(r)
        BusyInProject(r) == IsProjectTask(r, projectId) /\ IsInProgressRow(r)
    IN IF findIndex(projectRows, projectId) = -1
       THEN Outcome("null", projectRows, FALSE, "", "")
       ELSE WriteProject(projectRows, findIndex(projectRows, projectId),
                         Cardinality({i \in 1..Len(taskRows) : InProject(taskRows[i])}),
                         Cardinality({i \in 1..Len(taskRows) : DoneInProject(taskRows[i])}),
                         Cardinality({i \in 1..Len(taskRows) : BusyInProject(taskRows[i])}))

(***************************************************************************)
(* Identifiers and the record of the latest request.                       *)
(***************************************************************************)
\* createTask line 169: a fresh id, `${Date.now()}-${random}`
NewTaskId(n) == "t" \o toString(n)

\* createProject line 72: a fresh id
NewProjectId(n) == "p" \o toString(n)

\* sendEmail(to, subject, text): one delivered message
sendEmail(to, subject) == << [to |-> to, subject |-> subject] >>

\* the outcome standing for "recalcProjectProgress was not called"
NotCalled == Outcome("none", << >>, FALSE, "", "")

\* What the environment refuses during one request: "updateRow" is the
\* Sheets API rejecting the first values.update on the Projects sheet,
\* "sendEmail" the mail transport rejecting every sendMail.
Faults == SUBSET {"updateRow", "sendEmail"}

\* a refused write followed by a second attempt that the API accepts
WriteRefused_Retries(r, projectRows) == r

\* line 141 of recalcProjectProgress with the write refused: updateRow has
\* no try block, the rejection leaves recalcProjectProgress (kind "refused")
\* and the Projects sheet is as it was read
WriteRefused(r, projectRows) ==
    IF r.kind = "wrote" THEN Outcome("refused", projectRows, FALSE, "", "") ELSE r

\* the outcome of a call of recalcProjectProgress under the faults
StoreOutcome(r, projectRows, faults) ==
    IF "updateRow" \in faults THEN WriteRefused(r, projectRows) ELSE r

\* an exception left recalcProjectProgress
Threw(r) == r.kind \in {"threw", "refused"}

\* op: the handler; code: the HTTP status answered (0: not an HTTP request);
\* id: the task or project the request found and wrote; pid: the project handed to
\* recalcProjectProgress; kind, wasJustCompleted: what that call did and
\* returned; nth: how many recalcProjectProgress calls for pid have been made
\* in a row with no other request in between; parent: the parent task whose
\* row updateTask wrote on line 319 ("" when it wrote none); sweep: what a
\* run of sendTaskReminders returned (<< >> for a request); for a sweep nth
\* is 2 when the request before it was a sweep on the same day; faults: what
\* the environment refused during the request; wrote: the row the request
\* handed to appendRow (createTask) or to its first updateRow (updateTask),
\* or the row at the index it handed to deleteRowByIndex (deleteTask); call:
\* the arguments and the result of a call of a function of taskOverlap.js.
Answer(op, code, id, pid, r, nth) ==
    [ op |-> op, code |-> code, id |-> id, pid |-> pid,
      kind |-> r.kind, wasJustCompleted |-> r.wasJustCompleted, nth |-> nth,
      parent |-> "", sweep |-> << >>, faults |-> {}, wrote |-> << >>,
      call |-> << >> ]

(***************************************************************************)
(* taskController handlers, each run from request to response.             *)
(***************************************************************************)
\* lines 162-172: the task object built from the request body
NewTask(body, id) ==
    [ id           |-> id,
      projectId    |-> Field(body, "projectId"),
      title        |-> Field(body, "title"),
      description  |-> Field(body, "description"),
      assignedTo   |-> Field(body, "assignedTo"),
      startDate    |-> Field(body, "startDate"),
      endDate      |-> Field(body, "endDate"),
      dueDate      |-> Field(body, "dueDate"),
      status       |-> IF Field(body, "status") = ""
                       THEN "Not Started" ELSE Field(body, "status"),
      attachments  |-> IF "attachments" \in DOMAIN body
                       THEN body.attachments ELSE << >>,
      parentTaskId |-> Field(body, "parentTaskId") ]

\* createTask with sendEmail outside the try block of line 181: a refused
\* e-mail reaches the catch block of line 223
createTaskFailing_DispatchUncaught(body, faults) ==
    /\ UNCHANGED <<nextProject, today>>
    /\ IF Field(body, "title") = "" \/ Field(body, "projectId") = ""
       THEN /\ UNCHANGED <<tasks, projects, nextTask>>
            /\ mail' = << >>
            /\ ret' = Answer("createTask", 400, "", "", NotCalled, 0)
       ELSE \E t \in {NewTask(body, NewTaskId(nextTask))} :
            \E appended \in {Append(tasks, taskToRow(t))} :
            \E r \in {StoreOutcome(recalcProjectProgress(appended, projects, t.projectId),
                                   projects, faults)} :
              /\ tasks' = appended
              /\ nextTask' = nextTask + 1
              /\ IF Threw(r)
                 THEN /\ UNCHANGED projects
                      /\ mail' = << >>
                      /\ ret' = [Answer("createTask", 500, t.id, t.projectId, r, 0)
                                    EXCEPT !.faults = faults, !.wrote = taskToRow(t)]
                 ELSE /\ projects' = r.projects
                      /\ mail' = IF t.assignedTo # "" /\ "sendEmail" \notin faults
                                 THEN sendEmail(t.assignedTo, "New Task Assigned")
                                 ELSE << >>
                      /\ ret' = [Answer("createTask",
                                        IF t.assignedTo # "" /\ "sendEmail" \in faults
                                        THEN 500 ELSE 201,
                                        t.id, t.projectId, r, 0)
                                    EXCEPT !.faults = faults, !.wrote = taskToRow(t)]

\* lines 160-227 under the faults of the environment
createTaskFailing(body, faults) ==
    /\ UNCHANGED <<nextProject, today>>
    /\ IF Field(body, "title") = "" \/ Field(body, "projectId") = ""
       THEN /\ UNCHANGED <<tasks, projects, nextTask>>
            /\ mail' = << >>
            /\ ret' = Answer("createTask", 400, "", "", NotCalled, 0)
       ELSE \E t \in {NewTask(body, NewTaskId(nextTask))} :
            \E appended \in {Append(tasks, taskToRow(t))} :
            \E r \in {StoreOutcome(recalcProjectProgress(appended, projects, t.projectId),
                                   projects, faults)} :
              /\ tasks' = appended
              /\ nextTask' = nextTask + 1
              /\ IF Threw(r)
                 THEN /\ UNCHANGED projects
                      /\ mail' = << >>
                      /\ ret' = [Answer("createTask", 500, t.id, t.projectId, r, 0)
                                    EXCEPT !.faults = faults, !.wrote = taskToRow(t)]
                 ELSE /\ projects' = r.projects
                      \* lines 180-220: a sendEmail that throws is caught on line 216
                      /\ mail' = IF t.assignedTo # "" /\ "sendEmail" \notin faults
                                 THEN sendEmail(t.assignedTo, "New Task Assigned")
                                 ELSE << >>
                      /\ ret' = [Answer("createTask", 201, t.id, t.projectId, r, 0)
                                    EXCEPT !.faults = faults, !.wrote = taskToRow(t)]

createTask(body) == createTaskFailing(body, {})

\* lines 278-290 of updateTask
MergeTask(existing, update) ==
    [ id           |-> existing.id,
      projectId    |-> Coalesce(update, "projectId", existing.projectId),
      title        |-> Coalesce(update, "title", existing.title),
      description  |-> Coalesce(update, "description", existing.description),
      assignedTo   |-> Coalesce(update, "assignedTo", existing.assignedTo),
      startDate    |-> Coalesce(update, "startDate", existing.startDate),
      endDate      |-> Coalesce(update, "endDate", existing.endDate),
      dueDate      |-> Coalesce(update, "dueDate", existing.dueDate),
      status       |-> Coalesce(update, "status", existing.status),
      attachments  |-> Coalesce(update, "attachments", existing.attachments),
      parentTaskId |-> Coalesce(update, "parentTaskId", existing.parentTaskId) ]

\* lines 312-321 of updateTask, for the parent found on line 305
CompleteParent(written, parentTaskIndex, parentTask, allSubtasks, completedSubtasks) ==
    IF /\ allSubtasks > 0
       /\ completedSubtasks = allSubtasks
       /\ toLowerCase(parentTask.status) # "completed"
    THEN updateRow(written, parentTaskIndex + 2,
                   taskToRow([parentTask EXCEPT !.status = "Completed"]))
    ELSE written

\* a cascade that goes one level further: after the parent it completes
\* the parent's own parent
Cascade_CompletesGrandparent(rows, written, merged) ==
    LET IsSubtask(r) == Cell(r, 10) = merged.parentTaskId
        IsCompletedSubtask(r) == Cell(r, 10) = merged.parentTaskId /\ IsCompletedRow(r)
        parentTaskIndex == findIndex(rows, merged.parentTaskId)
        parentTask == rowToTask(rows[parentTaskIndex + 1])
        first == CompleteParent(written, parentTaskIndex, parentTask,
                                Cardinality({i \in 1..Len(rows) : IsSubtask(rows[i])}),
                                Cardinality({i \in 1..Len(rows) : IsCompletedSubtask(rows[i])}))
        grandparentIndex == findIndex(rows, parentTask.parentTaskId)
    IN IF merged.parentTaskId # "" /\ toLowerCase(merged.status) = "completed"
       THEN IF parentTaskIndex # -1
            THEN IF first # written /\ parentTask.parentTaskId # ""
                                    /\ grandparentIndex # -1
                 THEN updateRow(first, grandparentIndex + 2,
                                taskToRow([rowToTask(rows[grandparentIndex + 1])
                                              EXCEPT !.status = "Completed"]))
                 ELSE first
            ELSE written
       ELSE written

\* a two-way cascade: a subtask stored with a status other than Completed
\* takes a Completed parent back to In Progress
Cascade_ReopensParent(rows, written, merged) ==
    LET IsSubtask(r) == Cell(r, 10) = merged.parentTaskId
        IsCompletedSubtask(r) == Cell(r, 10) = merged.parentTaskId /\ IsCompletedRow(r)
        parentTaskIndex == findIndex(rows, merged.parentTaskId)
        parentTask == rowToTask(rows[parentTaskIndex + 1])
    IN IF merged.parentTaskId # "" /\ parentTaskIndex # -1
       THEN IF toLowerCase(merged.status) = "completed"
            THEN CompleteParent(written, parentTaskIndex, parentTask,
                                Cardinality({i \in 1..Len(rows) : IsSubtask(rows[i])}),
                                Cardinality({i \in 1..Len(rows) : IsCompletedSubtask(rows[i])}))
            ELSE IF toLowerCase(parentTask.status) = "completed"
            THEN updateRow(written, parentTaskIndex + 2,
                           taskToRow([parentTask EXCEPT !.status = "In Progress"]))
            ELSE written
       ELSE written

\* lines 303-323 of updateTask: the rows read on line 267, before the
\* task's own write, decide; the parent's row is written into `written`
Cascade(rows, written, merged) ==
    LET IsSubtask(r) == Cell(r, 10) = merged.parentTaskId
        IsCompletedSubtask(r) == Cell(r, 10) = merged.parentTaskId /\ IsCompletedRow(r)
    IN IF merged.parentTaskId # "" /\ toLowerCase(merged.status) = "completed"
       THEN IF findIndex(rows, merged.parentTaskId) # -1
            THEN CompleteParent(written, findIndex(rows, merged.parentTaskId),
                                rowToTask(rows[findIndex(rows, merged.parentTaskId) + 1]),
                                Cardinality({i \in 1..Len(rows) : IsSubtask(rows[i])}),
                                Cardinality({i \in 1..Len(rows) : IsCompletedSubtask(rows[i])}))
            ELSE written
       ELSE written

\* projectController.checkAndAutoCompleteProject(projectName, ownerEmail)
checkAndAutoCompleteProject(projectName, ownerEmail) ==
    IF ownerEmail # "" THEN sendEmail(ownerEmail, "Project Completed!") ELSE << >>

\* lines 328-385 of updateTask: the e-mails sent after the recalculation
UpdateMails(existing, merged, completionInfo) ==
    LET wasReassigned == merged.assignedTo # "" /\ merged.assignedTo # existing.assignedTo
        wasNewlyAssigned == existing.assignedTo = "" /\ merged.assignedTo # ""
        justCompleted == completionInfo.wasJustCompleted /\ completionInfo.ownerEmail # ""
    IN (IF justCompleted
        THEN sendEmail(completionInfo.ownerEmail, "Project Completed!")
        ELSE << >>)
       \o (IF (wasReassigned \/ wasNewlyAssigned) /\ merged.assignedTo # ""
           THEN sendEmail(merged.assignedTo,
                          IF wasReassigned THEN "Task Reassigned" ELSE "Task Assigned")
           ELSE << >>)
       \o (IF justCompleted
           THEN checkAndAutoCompleteProject(completionInfo.projectName,
                                            completionInfo.ownerEmail)
           ELSE << >>)

\* the cascade without the test of the parent's status on line 313
CascadeWrite_IgnoresParentStatus(rows, merged) ==
    LET IsSubtask(r) == Cell(r, 10) = merged.parentTaskId
        IsCompletedSubtask(r) == Cell(r, 10) = merged.parentTaskId /\ IsCompletedRow(r)
        parentTaskIndex == findIndex(rows, merged.parentTaskId)
        parentTask == rowToTask(rows[parentTaskIndex + 1])
        allSubtasks == Cardinality({i \in 1..Len(rows) : IsSubtask(rows[i])})
        completedSubtasks ==
            Cardinality({i \in 1..Len(rows) : IsCompletedSubtask(rows[i])})
    IN IF /\ merged.parentTaskId # ""
          /\ toLowerCase(merged.status) = "completed"
          /\ parentTaskIndex # -1
          /\ allSubtasks > 0
          /\ completedSubtasks = allSubtasks
       THEN << parentTaskIndex + 2,
               taskToRow([parentTask EXCEPT !.status = "Completed"]) >>
       ELSE << >>

\* lines 303-323 of updateTask, from the rows read on line 267: the row
\* number and the row of the parent's updateRow, << >> when there is none
CascadeWrite(rows, merged) ==
    LET IsSubtask(r) == Cell(r, 10) = merged.parentTaskId
        IsCompletedSubtask(r) == Cell(r, 10) = merged.parentTaskId /\ IsCompletedRow(r)
        parentTaskIndex == findIndex(rows, merged.parentTaskId)
        parentTask == rowToTask(rows[parentTaskIndex + 1])
        allSubtasks == Cardinality({i \in 1..Len(rows) : IsSubtask(rows[i])})
        completedSubtasks ==
            Cardinality({i \in 1..Len(rows) : IsCompletedSubtask(rows[i])})
    IN IF /\ merged.parentTaskId # ""
          /\ toLowerCase(merged.status) = "completed"
          /\ parentTaskIndex # -1
          /\ allSubtasks > 0
          /\ completedSubtasks = allSubtasks
          /\ toLowerCase(parentTask.status) # "completed"
       THEN << parentTaskIndex + 2,
               taskToRow([parentTask EXCEPT !.status = "Completed"]) >>
       ELSE << >>

\* updateTask with the recalculation reading the Tasks sheet as it was before
\* the parent's row was written
updateTask_RecalculatesBeforeCascade(id, update) ==
    /\ UNCHANGED <<nextTask, nextProject, today>>
    /\ \E rows \in {tasks} :
       \E index \in {findIndex(rows, id)} :
         IF index = -1
         THEN /\ UNCHANGED <<tasks, projects>>
              /\ mail' = << >>
              /\ ret' = Answer("updateTask", 404, "", "", NotCalled, 0)
         ELSE \E existing \in {rowToTask(rows[index + 1])} :
              \E merged \in {MergeTask(existing, update)} :
              \E written \in {updateRow(tasks, index + 2, taskToRow(merged))} :
              \E cascaded \in {Cascade(rows, written, merged)} :
              \E completionInfo \in
                    {recalcProjectProgress(written, projects, merged.projectId)} :
              \E parent \in {IF CascadeWrite(rows, merged) # << >>
                              THEN merged.parentTaskId ELSE ""} :
                /\ tasks' = cascaded
                /\ IF completionInfo.kind = "threw"
                   THEN /\ UNCHANGED projects
                        /\ mail' = << >>
                        /\ ret' = [Answer("updateTask", 500, id, merged.projectId,
                                          completionInfo, 0) EXCEPT !.parent = parent]
                   ELSE /\ projects' = completionInfo.projects
                        /\ mail' = UpdateMails(existing, merged, completionInfo)
                        /\ ret' = [Answer("updateTask", 200, id, merged.projectId,
                                          completionInfo, 0) EXCEPT !.parent = parent]

\* lines 261-399 under the faults of the environment
updateTaskFailing(id, update, faults) ==
    /\ UNCHANGED <<nextTask, nextProject, today>>
    /\ \E rows \in {tasks} :
       \E index \in {findIndex(rows, id)} :
         IF index = -1
         THEN /\ UNCHANGED <<tasks, projects>>
              /\ mail' = << >>
              /\ ret' = Answer("updateTask", 404, "", "", NotCalled, 0)
         ELSE \E existing \in {rowToTask(rows[index + 1])} :
              \E merged \in {MergeTask(existing, update)} :
              \E written \in {updateRow(tasks, index + 2, taskToRow(merged))} :
              \E cascaded \in {Cascade(rows, written, merged)} :
              \E completionInfo \in
                    {StoreOutcome(recalcProjectProgress(cascaded, projects, merged.projectId),
                                  projects, faults)} :
              \E parent \in {IF CascadeWrite(rows, merged) # << >>
                              THEN merged.parentTaskId ELSE ""} :
                /\ tasks' = cascaded
                /\ IF Threw(completionInfo)
                   THEN /\ UNCHANGED projects
                        /\ mail' = << >>
                        /\ ret' = [Answer("updateTask", 500, id, merged.projectId,
                                          completionInfo, 0)
                                      EXCEPT !.parent = parent, !.faults = faults,
                                             !.wrote = taskToRow(merged)]
                   ELSE /\ projects' = completionInfo.projects
                        \* every sendEmail of lines 328-385 is inside a try
                        \* block (lines 330, 345, projectController line 218)
                        /\ mail' = IF "sendEmail" \in faults THEN << >>
                                   ELSE UpdateMails(existing, merged, completionInfo)
                        /\ ret' = [Answer("updateTask", 200, id, merged.projectId,
                                          completionInfo, 0)
                                      EXCEPT !.parent = parent, !.faults = faults,
                                             !.wrote = taskToRow(merged)]

updateTask(id, update) == updateTaskFailing(id, update, {})

\* the rows after a delete that completes the parent of the deleted subtask
\* when the subtasks it has left are all Completed
CompleteParentAfterDelete(deleted, parentTaskId) ==
    LET IsSubtask(r) == Cell(r, 10) = parentTaskId
        IsOpenSubtask(r) == Cell(r, 10) = parentTaskId /\ ~IsCompletedRow(r)
        parentTaskIndex == findIndex(deleted, parentTaskId)
    IN IF /\ parentTaskId # ""
          /\ parentTaskIndex # -1
          /\ \E i \in 1..Len(deleted) : IsSubtask(deleted[i])
          /\ ~\E i \in 1..Len(deleted) : IsOpenSubtask(deleted[i])
       THEN updateRow(deleted, parentTaskIndex + 2,
                      taskToRow([rowToTask(deleted[parentTaskIndex + 1])
                                    EXCEPT !.status = "Completed"]))
       ELSE deleted

\* deleteTask running that cascade after deleteRowByIndex
deleteTaskFailing_CompletesParent(id, faults) ==
    /\ UNCHANGED <<nextTask, nextProject, today>>
    /\ mail' = << >>
    /\ \E rows \in {tasks} :
       \E index \in {findIndex(rows, id)} :
         IF Len(rows) = 0 \/ index = -1
         THEN /\ UNCHANGED <<tasks, projects>>
              /\ ret' = Answer("deleteTask", 404, "", "", NotCalled, 0)
         ELSE \E projectId \in {Cell(rows[index + 1], 1)} :
              \E deleted \in {CompleteParentAfterDelete(deleteRowByIndex(tasks, index),
                                                          Cell(rows[index + 1], 10))} :
                /\ tasks' = deleted
                /\ IF projectId = ""
                   THEN /\ UNCHANGED projects
                        /\ ret' = Answer("deleteTask", 200, id, "", NotCalled, 0)
                   ELSE \E r \in {StoreOutcome(recalcProjectProgress(deleted, projects, projectId),
                                              projects, faults)} :
                        IF Threw(r)
                        THEN /\ UNCHANGED projects
                             /\ ret' = [Answer("deleteTask", 500, id, projectId, r, 0)
                                           EXCEPT !.faults = faults,
                                                  !.wrote = rows[index + 1]]
                        ELSE /\ projects' = r.projects
                             /\ ret' = [Answer("deleteTask", 200, id, projectId, r, 0)
                                           EXCEPT !.faults = faults,
                                                  !.wrote = rows[index + 1]]

\* lines 402-450 under the faults of the environment
deleteTaskFailing(id, faults) ==
    /\ UNCHANGED <<nextTask, nextProject, today>>
    /\ mail' = << >>
    /\ \E rows \in {tasks} :
       \E index \in {findIndex(rows, id)} :
         IF Len(rows) = 0 \/ index = -1
         THEN /\ UNCHANGED <<tasks, projects>>
              /\ ret' = Answer("deleteTask", 404, "", "", NotCalled, 0)
         ELSE \E projectId \in {Cell(rows[index + 1], 1)} :
              \E deleted \in {deleteRowByIndex(tasks, index)} :
                /\ tasks' = deleted
                /\ IF projectId = ""
                   THEN /\ UNCHANGED projects
                        /\ ret' = Answer("deleteTask", 200, id, "", NotCalled, 0)
                   ELSE \E r \in {StoreOutcome(recalcProjectProgress(deleted, projects, projectId),
                                              projects, faults)} :
                        IF Threw(r)
                        THEN /\ UNCHANGED projects
                             /\ ret' = [Answer("deleteTask", 500, id, projectId, r, 0)
                                           EXCEPT !.faults = faults,
                                                  !.wrote = rows[index + 1]]
                        ELSE /\ projects' = r.projects
                             /\ ret' = [Answer("deleteTask", 200, id, projectId, r, 0)
                                           EXCEPT !.faults = faults,
                                                  !.wrote = rows[index + 1]]

deleteTask(id) == deleteTaskFailing(id, {})

(***************************************************************************)
(* projectController handlers.                                             *)
(***************************************************************************)
\* lines 68-77 of createProject
NewProject(data, id) ==
    [ id          |-> id,
      name        |-> Field(data, "name"),
      owner       |-> Field(data, "owner"),
      description |-> Field(data, "description"),
      startDate   |-> Field(data, "startDate"),
      endDate     |-> Field(data, "endDate"),
      status      |-> "Not Started",
      progress    |-> 0 ]

\* validateProject throws without a name or a start date: answer 500
createProject(data) ==
    /\ UNCHANGED <<tasks, nextTask, today>>
    /\ mail' = << >>
    /\ IF Field(data, "name") = "" \/ Field(data, "startDate") = ""
       THEN /\ UNCHANGED <<projects, nextProject>>
            /\ ret' = Answer("createProject", 500, "", "", NotCalled, 0)
       ELSE /\ projects' = Append(projects,
                                  projectToRow(NewProject(data, NewProjectId(nextProject))))
            /\ nextProject' = nextProject + 1
            /\ ret' = Answer("createProject", 201, NewProjectId(nextProject), "",
                             NotCalled, 0)

\* lines 145-155 of updateProject: status and progress of the body are not read
MergeProject(existing, update) ==
    [ id          |-> existing.id,
      name        |-> Coalesce(update, "name", existing.name),
      owner       |-> Coalesce(update, "owner", existing.owner),
      description |-> Coalesce(update, "description", existing.description),
      startDate   |-> Coalesce(update, "startDate", existing.startDate),
      endDate     |-> Coalesce(update, "endDate", existing.endDate),
      status      |-> existing.status,
      progress    |-> existing.progress ]

updateProject(id, update) ==
    /\ UNCHANGED <<tasks, nextTask, nextProject, today>>
    /\ mail' = << >>
    /\ \E rows \in {projects} :
       \E index \in {findIndex(rows, id)} :
         IF index = -1
         THEN /\ UNCHANGED projects
              /\ ret' = Answer("updateProject", 404, "", "", NotCalled, 0)
         ELSE \E merged \in {MergeProject(rowToProject(rows[index + 1]), update)} :
              \E written \in {updateRow(projects, 1 + index + 1, projectToRow(merged))} :
              \E r \in {recalcProjectProgress(tasks, written, id)} :
                /\ projects' = r.projects
                /\ ret' = Answer("updateProject",
                                 IF r.kind = "threw" THEN 500 ELSE 200, id, id, r, 0)

deleteProject(id) ==
    /\ UNCHANGED <<tasks, nextTask, nextProject, today>>
    /\ mail' = << >>
    /\ \E rows \in {projects} :
       \E index \in {findIndex(rows, id)} :
         IF Len(rows) = 0 \/ index = -1
         THEN /\ UNCHANGED projects
              /\ ret' = Answer("deleteProject", 404, "", "", NotCalled, 0)
         ELSE /\ projects' = deleteRowByIndex(projects, index)
              /\ ret' = Answer("deleteProject", 200, id, "", NotCalled, 0)

\* a direct call of the exported recalcProjectProgress(projectId)
Recalculate(projectId) ==
    /\ UNCHANGED <<tasks, nextTask, nextProject, today>>
    /\ mail' = << >>
    /\ \E r \in {recalcProjectProgress(tasks, projects, projectId)} :
         /\ projects' = r.projects
         /\ ret' = Answer("recalcProjectProgress", 0, "", projectId, r,
                          IF ret.op = "recalcProjectProgress" /\ ret.pid = projectId
                          THEN (IF ret.nth < 2 THEN ret.nth + 1 ELSE 2)
                          ELSE 1)

(***************************************************************************)
(* reminderJob: the daily sweep.                                           *)
(***************************************************************************)
\* calendar days, one string per day, as the date inputs of the forms
\* write them; a day is its index in DayName
DayName == << "2025-03-01", "2025-03-02", "2025-03-03", "2025-03-04",
              "2025-03-05", "2025-03-06", "2025-03-07", "2025-03-08",
              "2025-03-09" >>

\* new Date(s) followed by setHours(0, 0, 0, 0): the day of a date string,
\* NaN (valid = FALSE) for a string that is not a date
NewDate(s) ==
    IF \E d \in DOMAIN DayName : DayName[d] = s
    THEN [valid |-> TRUE, day |-> CHOOSE d \in DOMAIN DayName : DayName[d] = s]
    ELSE [valid |-> FALSE, day |-> 0]

\* lines 42-125, the body of the loop for one row: the e-mails it sends
ReminderFor(row, now) ==
    LET assignedTo == Cell(row, 4)
        dueDate == Cell(row, 5)
        status == IF Cell(row, 6) = "" THEN "Not Started" ELSE Cell(row, 6)
        due == NewDate(dueDate)
        diffDays == due.day - now
    IN IF dueDate = "" \/ assignedTo = "" \/ toLowerCase(status) = "completed"
       THEN << >>
       ELSE IF due.valid /\ diffDays = 2
       THEN sendEmail(assignedTo, "Reminder: due in 2 days")
       ELSE IF due.valid /\ diffDays = -2
       THEN sendEmail(assignedTo, "Overdue Reminder: 2 days overdue")
       ELSE << >>

\* lines 38-39: the counters of a sweep; delivered: the e-mails the
\* transport accepted; aborted: an exception left the loop for the catch
\* block of line 130
SweepStart ==
    [ remindersSent |-> 0, reminders |-> << >>, delivered |-> << >>,
      aborted |-> FALSE ]

\* the loop body with the try block of line 55 left out: a sendEmail that
\* throws ends the sweep
SweepRow_AbortsOnFailure(acc, row, now, fails) ==
    IF acc.aborted \/ ReminderFor(row, now) = << >> THEN acc
    ELSE IF fails THEN [acc EXCEPT !.aborted = TRUE]
    ELSE [acc EXCEPT !.remindersSent = @ + 1,
                     !.reminders = Append(@, ReminderFor(row, now)[1].to),
                     !.delivered = @ \o ReminderFor(row, now)]

\* lines 42-125, the loop body for one row: sendEmail (lines 81, 106)
\* rethrows what the transport throws, the catch block of line 122 takes it
\* and the loop goes on; the counter and the list move after the await
SweepRow(acc, row, now, fails) ==
    IF acc.aborted \/ ReminderFor(row, now) = << >> THEN acc
    ELSE IF fails THEN acc
    ELSE [acc EXCEPT !.remindersSent = @ + 1,
                     !.reminders = Append(@, ReminderFor(row, now)[1].to),
                     !.delivered = @ \o ReminderFor(row, now)]

\* lines 41-126, the loop over the task rows in sheet order; k is the
\* position of the first of taskRows in the sheet, failing the positions of
\* the rows whose dispatch the transport refuses
RECURSIVE SweepRows(_, _, _, _, _)
SweepRows(acc, taskRows, now, failing, k) ==
    IF taskRows = << >> THEN acc
    ELSE SweepRows(SweepRow(acc, Head(taskRows), now, k \in failing),
                   Tail(taskRows), now, failing, k + 1)

\* lines 128-135: the value sendTaskReminders returns
SweepReturn(result, failing, now) ==
    [ success |-> ~result.aborted,
      remindersSent |-> IF result.aborted THEN 0 ELSE result.remindersSent,
      reminders |-> IF result.aborted THEN << >> ELSE result.reminders,
      failing |-> failing, day |-> now ]

\* the job with a record of the day of its last run: a second run on the
\* same day sends nothing
sendTaskRemindersFailing_OncePerDay(failing) ==
    /\ UNCHANGED <<tasks, projects, nextTask, nextProject, today>>
    /\ \E result \in {IF ret.op = "sendTaskReminders" /\ ret.sweep.day = today
                      THEN SweepStart
                      ELSE SweepRows(SweepStart, tasks, today, failing, 1)} :
         /\ mail' = result.delivered
         /\ ret' = [Answer("sendTaskReminders", 0, "", "", NotCalled,
                           IF ret.op = "sendTaskReminders" /\ ret.sweep.day = today
                           THEN 2 ELSE 1)
                       EXCEPT !.sweep = SweepReturn(result, failing, today)]

\* the job marking the row of every reminder it sent as 'Reminded'
sendTaskRemindersFailing_MarksRows(failing) ==
    /\ UNCHANGED <<projects, nextTask, nextProject, today>>
    /\ \E result \in {SweepRows(SweepStart, tasks, today, failing, 1)} :
         /\ mail' = result.delivered
         /\ tasks' = [i \in 1..Len(tasks) |->
                        IF i \notin failing /\ ReminderFor(tasks[i], today) # << >>
                        THEN [tasks[i] EXCEPT ![8] = "Reminded"]
                        ELSE tasks[i]]
         /\ ret' = [Answer("sendTaskReminders", 0, "", "", NotCalled,
                           IF ret.op = "sendTaskReminders" /\ ret.sweep.day = today
                           THEN 2 ELSE 1)
                       EXCEPT !.sweep = SweepReturn(result, failing, today)]

\* one run of the job, the transport refusing the dispatches for the rows
\* at the positions in `failing`
sendTaskRemindersFailing(failing) ==
    /\ UNCHANGED <<tasks, projects, nextTask, nextProject, today>>
    /\ \E result \in {SweepRows(SweepStart, tasks, today, failing, 1)} :
         /\ mail' = result.delivered
         /\ ret' = [Answer("sendTaskReminders", 0, "", "", NotCalled,
                           IF ret.op = "sendTaskReminders" /\ ret.sweep.day = today
                           THEN 2 ELSE 1)
                       EXCEPT !.sweep = SweepReturn(result, failing, today)]

\* one run of the job with a transport that accepts every e-mail
sendTaskReminders == sendTaskRemindersFailing({})

(***************************************************************************)
(* The requests the clients send.                                          *)
(***************************************************************************)
MaxDay == 5         \* last calendar day a behaviour reaches
MaxSweepTasks == 2  \* task ids generated in one behaviour of SweepSpec

\* a field the client leaves out of the JSON body
Absent == "(absent)"

\* the JSON body of a choice of values: the fields chosen Absent are left out
Body(choice) ==
    [f \in {g \in DOMAIN choice : choice[g] # Absent} |-> choice[f]]

Statuses == {"Not Started", "In Progress", "Completed", "Blocked"}

TaskIdsSoFar == {NewTaskId(n) : n \in 1..(nextTask - 1)}
ProjectIdsSoFar == {NewProjectId(n) : n \in 1..(nextProject - 1)}

CreateTaskBodies ==
    { Body(c) : c \in [ title : {"T"},
                        projectId : ProjectIdsSoFar \cup {Absent},
                        status : Statuses \cup {Absent},
                        parentTaskId : TaskIdsSoFar \cup {Absent} ] }

UpdateTaskBodies ==
    { Body(c) : c \in [ projectId : ProjectIdsSoFar \cup {Absent},
                        status : Statuses \cup {Absent} ] }

CreateProjectBodies ==
    { Body(c) : c \in [ name : {"P", Absent}, owner : {"owner@x.com"},
                        startDate : {DayName[1]} ] }

UpdateProjectBodies ==
    { Body(c) : c \in [ status : {"Completed", Absent}, progress : {"100", Absent} ] }

SweepTaskBodies ==
    { Body(c) : c \in [ title : {"T"}, projectId : {"p1"},
                        assignedTo : {"a@x.com", Absent},
                        startDate : {DayName[5], Absent},
                        dueDate : {DayName[3], DayName[5], Absent},
                        status : {"In Progress", "Completed"} ] }

(***************************************************************************)
(* updateTask as the event loop runs it: the handler is suspended at every *)
(* await (a sheet read or a sheet write), and other requests run in        *)
(* between.  A slot holds one request from its arrival to its response.    *)
(***************************************************************************)
MaxRequests == 2   \* updateTask requests in flight in one behaviour

Slots == 1..MaxRequests

\* pc: the await the request is suspended at; id: the task of the request;
\* pid: merged.projectId; code: the HTTP status answered; ownWrite,
\* parentWrite, projWrite: the row number and the row of the updateRow calls
\* the handler has decided on and not yet made (projWrite is kept after the
\* write); seen: the task rows its recalculation read
Request(pc, id, pid, code, ownWrite, parentWrite, seen, projWrite) ==
    [ pc |-> pc, id |-> id, pid |-> pid, code |-> code, ownWrite |-> ownWrite,
      parentWrite |-> parentWrite, seen |-> seen, projWrite |-> projWrite ]

Idle == Request("idle", "", "", 0, << >>, << >>, << >>, << >>)

\* lines 263-290: the request arrives, reads the Tasks sheet and merges.
UpdateTaskRead(s, id, update) ==
    /\ inflight[s].pc = "idle"
    /\ \A q \in 1..(s - 1) : inflight[q].pc # "idle"   \* slots are taken in order
    /\ UNCHANGED <<tasks, projects, nextTask, nextProject, today, mail, ret, log>>
    /\ \E rows \in {tasks} :
       \E index \in {findIndex(rows, id)} :
         IF index = -1
         THEN inflight' = [inflight EXCEPT ![s] =
                  Request("done", id, "", 404, << >>, << >>, << >>, << >>)]
         ELSE \E merged \in {MergeTask(rowToTask(rows[index + 1]), update)} :
              inflight' = [inflight EXCEPT ![s] =
                  Request("updateRow", id, merged.projectId, 0,
                          << index + 2, taskToRow(merged) >>,
                          CascadeWrite(rows, merged), << >>, << >>)]

\* line 298: the task's row is written at the position computed on line 297
UpdateTaskWrite(s) ==
    /\ inflight[s].pc = "updateRow"
    /\ UNCHANGED <<projects, nextTask, nextProject, today, mail, ret, log>>
    /\ tasks' = updateRow(tasks, inflight[s].ownWrite[1], inflight[s].ownWrite[2])
    /\ inflight' = [inflight EXCEPT ![s].pc =
                                        IF inflight[s].parentWrite # << >>
                                        THEN "updateParent" ELSE "recalcReadTasks",
                                    ![s].ownWrite = << >>]

\* line 319: the parent's row is written at the position computed on line 318
UpdateTaskParent(s) ==
    /\ inflight[s].pc = "updateParent"
    /\ UNCHANGED <<projects, nextTask, nextProject, today, mail, ret, log>>
    /\ tasks' = updateRow(tasks, inflight[s].parentWrite[1],
                          inflight[s].parentWrite[2])
    /\ inflight' = [inflight EXCEPT ![s].pc = "recalcReadTasks",
                                    ![s].parentWrite = << >>]

\* line 73 of recalcProjectProgress: the Tasks sheet is read
RecalcReadTasks(s) ==
    /\ inflight[s].pc = "recalcReadTasks"
    /\ UNCHANGED <<tasks, projects, nextTask, nextProject, today, mail, ret, log>>
    /\ inflight' = [inflight EXCEPT ![s].pc = "recalcReadProjects",
                                    ![s].seen = tasks]

\* lines 85-139: the Projects sheet is read and the new row is built from
\* the task rows read before; the request answers 200 when the project
\* has no row and 500 when the recalculation throws
RecalcReadProjects(s) ==
    /\ inflight[s].pc = "recalcReadProjects"
    /\ UNCHANGED <<tasks, projects, nextTask, nextProject, today, mail, ret, log>>
    /\ \E r \in {recalcProjectProgress(inflight[s].seen, projects, inflight[s].pid)} :
       \E projectIndex \in {findIndex(projects, inflight[s].pid)} :
         inflight' = [inflight EXCEPT ![s] =
             IF r.kind = "null" THEN [@ EXCEPT !.pc = "done", !.code = 200]
             ELSE IF r.kind = "threw" THEN [@ EXCEPT !.pc = "done", !.code = 500]
             ELSE [@ EXCEPT !.pc = "recalcUpdateRow",
                            !.projWrite = << 1 + projectIndex + 1,
                                             r.projects[projectIndex + 1] >>]]

\* line 141: the project's row is written at the position computed on
\* line 140; the request answers 200
RecalcWrite(s) ==
    /\ inflight[s].pc = "recalcUpdateRow"
    /\ UNCHANGED <<tasks, nextTask, nextProject, today, mail, ret, log>>
    /\ projects' = updateRow(projects, inflight[s].projWrite[1],
                             inflight[s].projWrite[2])
    /\ inflight' = [inflight EXCEPT ![s].pc = "done", ![s].code = 200]

MaxRaceTasks == 2      \* task ids generated in one behaviour of RaceSpec
MaxRaceProjects == 1   \* project ids generated in one behaviour of RaceSpec

RaceTaskBodies ==
    { Body(c) : c \in [ title : {"T"}, projectId : {NewProjectId(1)},
                        status : {"Not Started", "Completed"},
                        parentTaskId : TaskIdsSoFar \cup {Absent} ] }

RaceProjectBodies ==
    { Body(c) : c \in [ name : {"P"}, owner : {"owner@x.com"},
                        startDate : {DayName[1]} ] }

RaceUpdateBodies ==
    { Body(c) : c \in [ status : {"In Progress", "Completed"} ] }

(***************************************************************************)
(* Specifications.                                                         *)
(***************************************************************************)
Init ==
    /\ tasks = << >>
    /\ projects = << >>
    /\ nextTask = 1
    /\ nextProject = 1
    /\ today = 3
    /\ mail = << >>
    /\ ret = Answer("none", 0, "", "", NotCalled, 0)
    /\ inflight = [s \in Slots |-> Idle]
    /\ log = [days |-> {}, swept |-> {}, sent |-> {}]

\* midnight passes
NextDay ==
    /\ today' = today + 1
    /\ UNCHANGED <<tasks, projects, nextTask, nextProject, mail, ret>>

Next ==
    \/ \E body \in CreateTaskBodies : nextTask <= MaxTasks /\ createTask(body) /\ UNCHANGED <<inflight, log>>
    \/ \E id \in TaskIdsSoFar, update \in UpdateTaskBodies : updateTask(id, update) /\ UNCHANGED <<inflight, log>>
    \/ \E id \in TaskIdsSoFar : deleteTask(id) /\ UNCHANGED <<inflight, log>>
    \/ \E data \in CreateProjectBodies :
          nextProject <= MaxProjects /\ createProject(data) /\ UNCHANGED <<inflight, log>>
    \/ \E id \in ProjectIdsSoFar, update \in UpdateProjectBodies : updateProject(id, update) /\ UNCHANGED <<inflight, log>>
    \/ \E id \in ProjectIdsSoFar : deleteProject(id) /\ UNCHANGED <<inflight, log>>
    \/ \E id \in ProjectIdsSoFar : Recalculate(id) /\ UNCHANGED <<inflight, log>>

Spec == Init /\ [][Next]_vars

\* the reminder job over tasks created with dates and assignees
SweepNext ==
    \/ \E body \in SweepTaskBodies : nextTask <= MaxSweepTasks /\ createTask(body) /\ UNCHANGED <<inflight, log>>
    \/ sendTaskReminders /\ UNCHANGED <<inflight, log>>
    \/ today < MaxDay /\ NextDay /\ UNCHANGED <<inflight, log>>

SweepSpec == Init /\ [][SweepNext]_vars

\* two updateTask requests interleaved at their awaits, next to requests
\* that run from arrival to response
RaceNext ==
    \/ \E data \in RaceProjectBodies :
          nextProject <= MaxRaceProjects /\ createProject(data) /\ UNCHANGED <<inflight, log>>
    \/ \E body \in RaceTaskBodies :
          nextTask <= MaxRaceTasks /\ createTask(body) /\ UNCHANGED <<inflight, log>>
    \/ \E id \in TaskIdsSoFar :
          findIndex(tasks, id) # -1 /\ deleteTask(id) /\ UNCHANGED <<inflight, log>>
    \/ \E s \in Slots, id \in TaskIdsSoFar, update \in RaceUpdateBodies :
          UpdateTaskRead(s, id, update)
    \/ \E s \in Slots : UpdateTaskWrite(s)
    \/ \E s \in Slots : UpdateTaskParent(s)
    \/ \E s \in Slots : RecalcReadTasks(s)
    \/ \E s \in Slots : RecalcReadProjects(s)
    \/ \E s \in Slots : RecalcWrite(s)

RaceSpec == Init /\ [][RaceNext]_vars

(***************************************************************************)
(* The stored and the derived state of a project, as the data model        *)
(* defines them: a main task is a task row with an empty ParentTaskID.     *)
(***************************************************************************)
MainTasks(pid) ==
    {i \in 1..Len(tasks) : Cell(tasks[i], 1) = pid /\ Cell(tasks[i], 10) = ""}

IsDone(row) == toLowerCase(Cell(row, 8)) = "completed"
IsBusy(row) == toLowerCase(Cell(row, 8)) = "in progress"

AllMainDone(pid) ==
    MainTasks(pid) # {} /\ \A i \in MainTasks(pid) : IsDone(tasks[i])

SomeMainStarted(pid) ==
    \E i \in MainTasks(pid) : IsDone(tasks[i]) \/ IsBusy(tasks[i])

DerivedStatus(pid) ==
    IF AllMainDone(pid) THEN "Completed"
    ELSE IF SomeMainStarted(pid) THEN "In Progress"
    ELSE "Not Started"

DerivedProgress(pid) ==
    LET total == Cardinality(MainTasks(pid))
        done == Cardinality({i \in MainTasks(pid) : IsDone(tasks[i])})
    IN IF total = 0 THEN 0 ELSE ((200 * done) + total) \div (2 * total)

ProjectExists(rows, pid) == \E i \in 1..Len(rows) : Cell(rows[i], 0) = pid

ProjectRow(rows, pid) == rows[CHOOSE i \in 1..Len(rows) : Cell(rows[i], 0) = pid]

StoredStatus(pid) == ProjectRow(projects, pid)[7]
StoredProgress(pid) == ProjectRow(projects, pid)[8]

\* the latest request ran recalcProjectProgress on a project that has a row
Recalculated == ret.kind \in {"wrote", "threw"}

(***************************************************************************)
(* C1: after any sequence of task requests run one at a time, every        *)
(* project row stores the status and the progress derived from the         *)
(* project's current main tasks.                                           *)
(***************************************************************************)
C1_StoredIsDerived ==
    \A i \in 1..Len(projects) :
        /\ projects[i][7] = DerivedStatus(projects[i][1])
        /\ projects[i][8] = toString(DerivedProgress(projects[i][1]))

(***************************************************************************)
(* C2: recalculating a project whose main tasks are all Completed (at      *)
(* least one) completes and writes status Completed and progress 100; it   *)
(* writes Completed in no other case.                                      *)
(***************************************************************************)
C2_AllDoneWritesCompleted ==
    /\ (Recalculated /\ AllMainDone(ret.pid)) =>
           /\ ret.kind = "wrote"
           /\ StoredStatus(ret.pid) = "Completed"
           /\ StoredProgress(ret.pid) = "100"
    /\ (ret.kind = "wrote" /\ StoredStatus(ret.pid) = "Completed") =>
           AllMainDone(ret.pid)

(***************************************************************************)
(* C3: when updateTask sets a subtask to Completed and the parent task     *)
(* exists and was not Completed, the parent is Completed afterwards if and *)
(* only if every task with that parent, the updated one included with its  *)
(* new status, is Completed.                                               *)
(***************************************************************************)
C3_CascadeIffAllSiblingsDone ==
    [][ \A i \in 1..Len(tasks'), j \in 1..Len(tasks) :
          ( /\ ret'.op = "updateTask"
            /\ tasks'[i][1] = ret'.id
            /\ tasks'[i][11] # ""
            /\ IsDone(tasks'[i])
            /\ tasks[j][1] = tasks'[i][11]
            /\ ~IsDone(tasks[j]) )
          => ( IsDone(tasks'[j]) <=>
                 \A k \in 1..Len(tasks') :
                    tasks'[k][11] = tasks[j][1] => IsDone(tasks'[k]) ) ]_vars

(***************************************************************************)
(* C4: an updateTask whose recalculation takes the project from a stored   *)
(* status other than Completed to Completed dispatches exactly one         *)
(* completion e-mail to the owner; one that finds the project already      *)
(* Completed dispatches none.                                              *)
(***************************************************************************)
CompletionMails(sent, owner) ==
    Cardinality({k \in 1..Len(sent) :
                    sent[k].to = owner /\ sent[k].subject = "Project Completed!"})

C4_OneCompletionMailPerTransition ==
    [][ ( /\ ret'.op = "updateTask"
          /\ ret'.id # ""
          /\ ProjectExists(projects, ret'.pid) )
        => LET old == ProjectRow(projects, ret'.pid)
               allDone ==
                   /\ \E i \in 1..Len(tasks') :
                          tasks'[i][2] = ret'.pid /\ tasks'[i][11] = ""
                   /\ \A k \in 1..Len(tasks') :
                          (tasks'[k][2] = ret'.pid /\ tasks'[k][11] = "")
                              => IsDone(tasks'[k])
           IN /\ (toLowerCase(old[7]) # "completed" /\ allDone /\ old[3] # "")
                    => CompletionMails(mail', old[3]) = 1
              /\ toLowerCase(old[7]) = "completed"
                    => CompletionMails(mail', old[3]) = 0 ]_vars

(***************************************************************************)
(* C5: after updateProject the project row stores the status and progress  *)
(* derived from the main tasks, whatever status and progress the request   *)
(* body carried.                                                           *)
(***************************************************************************)
C5_UpdateProjectStoresDerived ==
    (ret.op = "updateProject" /\ ret.id # "") =>
        /\ StoredStatus(ret.id) = DerivedStatus(ret.id)
        /\ StoredProgress(ret.id) = toString(DerivedProgress(ret.id))

(***************************************************************************)
(* C6: a sweep sends a reminder for a task exactly when its DueDate and    *)
(* AssignedTo columns are filled, its Status column is not Completed and   *)
(* the due date is 2 days ahead (upcoming) or 2 days past (overdue).       *)
(***************************************************************************)
ExpectedReminder(row, now) ==
    LET due == NewDate(row[8])
    IN IF row[8] = "" \/ row[5] = "" \/ IsDone(row) \/ ~due.valid THEN << >>
       ELSE IF due.day - now = 2
       THEN << [to |-> row[5], subject |-> "Reminder: due in 2 days"] >>
       ELSE IF due.day - now = -2
       THEN << [to |-> row[5], subject |-> "Overdue Reminder: 2 days overdue"] >>
       ELSE << >>

RECURSIVE ExpectedReminders(_, _)
ExpectedReminders(rows, now) ==
    IF rows = << >> THEN << >>
    ELSE ExpectedReminder(Head(rows), now) \o ExpectedReminders(Tail(rows), now)

C6_SweepRemindsByDueDate ==
    ret.op = "sendTaskReminders" => mail = ExpectedReminders(tasks, today)

(***************************************************************************)
(* C7: a recalculation writes status In Progress if and only if some main  *)
(* task of the project is Completed or In Progress and not all of them are *)
(* Completed.                                                              *)
(***************************************************************************)
C7_InProgressIffStartedNotDone ==
    ret.kind = "wrote" =>
        ( StoredStatus(ret.pid) = "In Progress"
            <=> (SomeMainStarted(ret.pid) /\ ~AllMainDone(ret.pid)) )

\* a recalculation wrote In Progress for a project with a Completed and a
\* not Completed main task
C7_Witness ==
    /\ ret.kind = "wrote"
    /\ StoredStatus(ret.pid) = "In Progress"
    /\ \E i, j \in MainTasks(ret.pid) : IsDone(tasks[i]) /\ ~IsDone(tasks[j])

(***************************************************************************)
(* C8 as stated: a recalculation writes status Not Started with progress 0 *)
(* if and only if the project has no main task or all its main tasks are   *)
(* Not Started.                                                            *)
(***************************************************************************)
C8_NotStartedIffAllNotStarted ==
    ret.kind = "wrote" =>
        ( (StoredStatus(ret.pid) = "Not Started" /\ StoredProgress(ret.pid) = "0")
            <=> \A i \in MainTasks(ret.pid) :
                    toLowerCase(tasks[i][9]) = "not started" )

(***************************************************************************)
(* C8 amended: a recalculation writes status Not Started with progress 0   *)
(* if and only if the project has no main task that is Completed or In     *)
(* Progress (its main tasks, if any, are Not Started or Blocked).          *)
(***************************************************************************)
C8_NotStartedIffNoneStarted ==
    ret.kind = "wrote" =>
        ( (StoredStatus(ret.pid) = "Not Started" /\ StoredProgress(ret.pid) = "0")
            <=> ~SomeMainStarted(ret.pid) )

\* a recalculation wrote Not Started for a project with a Blocked main task
C8_Witness ==
    /\ ret.kind = "wrote"
    /\ StoredStatus(ret.pid) = "Not Started"
    /\ StoredProgress(ret.pid) = "0"
    /\ \E i \in MainTasks(ret.pid) : tasks[i][9] = "Blocked"

(***************************************************************************)
(* C9: a recalculation of a project writes the progress                    *)
(* round(100 * completed / total) over the main tasks, 0 without main      *)
(* tasks, 100 with status Completed, always an integer in 0..100.          *)
(***************************************************************************)
C9_ProgressIsRoundedShare ==
    Recalculated =>
        /\ ret.kind = "wrote"
        /\ StoredProgress(ret.pid) = toString(DerivedProgress(ret.pid))
        /\ DerivedProgress(ret.pid) \in 0..100
        /\ MainTasks(ret.pid) = {} => StoredProgress(ret.pid) = "0"
        /\ StoredStatus(ret.pid) = "Completed" => StoredProgress(ret.pid) = "100"

(***************************************************************************)
(* C10: the second of two recalculations of a project in a row, with no    *)
(* request in between, returns a value, reports wasJustCompleted = false   *)
(* and leaves the Projects sheet as the first one left it.                 *)
(***************************************************************************)
C10_SecondRecalculationIsNoOp ==
    [][ ( /\ ret'.op = "recalcProjectProgress"
          /\ ret'.nth = 2
          /\ ret.nth = 1
          /\ ret.kind # "null" )
        => ( /\ ret.kind = "wrote"
             /\ ret'.kind = "wrote"
             /\ ret'.wasJustCompleted = FALSE
             /\ projects' = projects ) ]_vars

(***************************************************************************)
(* The row of a task in the Tasks sheet.                                   *)
(***************************************************************************)
TaskExists(rows, id) == \E i \in 1..Len(rows) : Cell(rows[i], 0) = id

TaskRow(rows, id) == rows[CHOOSE i \in 1..Len(rows) : Cell(rows[i], 0) = id]

\* the latest request was an updateTask that found task `id`, a subtask,
\* and changed nothing of it but its status
StatusOnlySubtaskUpdate(before, after, id) ==
    /\ TaskExists(before, id)
    /\ TaskExists(after, id)
    /\ TaskRow(before, id)[11] # ""
    /\ TaskRow(before, id)[9] # TaskRow(after, id)[9]
    /\ \A c \in (1..11) \ {9} : TaskRow(before, id)[c] = TaskRow(after, id)[c]

\* the request completed the parent of subtask `id`
ParentCompletedBy(before, after, id) ==
    LET parent == TaskRow(before, id)[11]
    IN /\ TaskExists(before, parent)
       /\ TaskExists(after, parent)
       /\ ~IsDone(TaskRow(before, parent))
       /\ IsDone(TaskRow(after, parent))

(***************************************************************************)
(* C11: an updateTask that changes only the status of a subtask leaves the *)
(* stored status and progress of the subtask's project as they were,       *)
(* unless the request completed the parent task.                           *)
(***************************************************************************)
C11_SubtaskStatusLeavesProject ==
    [][ ( /\ ret'.op = "updateTask"
          /\ ret'.id # ""
          /\ StatusOnlySubtaskUpdate(tasks, tasks', ret'.id)
          /\ ~ParentCompletedBy(tasks, tasks', ret'.id)
          /\ ProjectExists(projects, ret'.pid) )
        => ( /\ ProjectExists(projects', ret'.pid)
             /\ ProjectRow(projects', ret'.pid)[7] = ProjectRow(projects, ret'.pid)[7]
             /\ ProjectRow(projects', ret'.pid)[8] = ProjectRow(projects, ret'.pid)[8] ) ]_vars

(***************************************************************************)
(* Subtasks under one project: enough tasks for a parent, its subtask and  *)
(* a second main task.                                                     *)
(***************************************************************************)
MaxCascadeTasks == 3     \* task ids generated in one behaviour of CascadeSpec
MaxCascadeProjects == 1  \* project ids generated in one behaviour of CascadeSpec

CascadeTaskBodies ==
    { Body(c) : c \in [ title : {"T"}, projectId : {NewProjectId(1)},
                        status : {"Not Started", "Completed"},
                        parentTaskId : TaskIdsSoFar \cup {Absent} ] }

CascadeUpdateBodies ==
    { Body(c) : c \in [ status : {"In Progress", "Completed"} ] }

CascadeNext ==
    \/ \E data \in CreateProjectBodies :
          nextProject <= MaxCascadeProjects /\ createProject(data) /\ UNCHANGED <<inflight, log>>
    \/ \E body \in CascadeTaskBodies :
          nextTask <= MaxCascadeTasks /\ createTask(body) /\ UNCHANGED <<inflight, log>>
    \/ \E id \in TaskIdsSoFar, update \in CascadeUpdateBodies : updateTask(id, update) /\ UNCHANGED <<inflight, log>>

CascadeSpec == Init /\ [][CascadeNext]_vars

(***************************************************************************)
(* C12: when an updateTask wrote the parent's row (the cascade) and its    *)
(* recalculation then wrote the project's row, the stored status and       *)
(* progress are the ones derived from the task rows with the parent        *)
(* Completed.                                                              *)
(***************************************************************************)
C12_DerivationSeesCascadedParent ==
    (ret.op = "updateTask" /\ ret.parent # "" /\ ret.kind = "wrote") =>
        /\ IsDone(TaskRow(tasks, ret.parent))
        /\ StoredStatus(ret.pid) = DerivedStatus(ret.pid)
        /\ StoredProgress(ret.pid) = toString(DerivedProgress(ret.pid))

\* an updateTask completed the parent, a main task of the project next to
\* an open one, and the project was written In Progress with the parent
\* counted
C12_Witness ==
    /\ ret.op = "updateTask" /\ ret.parent # "" /\ ret.kind = "wrote"
    /\ TaskRow(tasks, ret.parent)[2] = ret.pid
    /\ TaskRow(tasks, ret.parent)[11] = ""
    /\ \E i \in MainTasks(ret.pid) : ~IsDone(tasks[i])
    /\ StoredStatus(ret.pid) = "In Progress"
    /\ StoredProgress(ret.pid) = "50"

(***************************************************************************)
(* C13: two updateTask requests on tasks of one project, interleaved at    *)
(* their awaits, can both answer 200 and leave the project's row different *)
(* from what the final task rows derive (C13_RaceLeavesStaleProject is     *)
(* such a state); and whenever a successful request's project row is the   *)
(* stored one and differs from the derived values, that request computed   *)
(* it from task rows older than the final ones.                            *)
(***************************************************************************)
WroteProject(s) ==
    /\ inflight[s].pc = "done"
    /\ inflight[s].code = 200
    /\ inflight[s].projWrite # << >>

StoredDiffersFromDerived(pid) ==
    \/ StoredStatus(pid) # DerivedStatus(pid)
    \/ StoredProgress(pid) # toString(DerivedProgress(pid))

C13_StaleOnlyFromOlderSnapshot ==
    \A s \in Slots :
        ( /\ WroteProject(s)
          /\ ProjectExists(projects, inflight[s].pid)
          /\ ProjectRow(projects, inflight[s].pid) = inflight[s].projWrite[2]
          /\ StoredDiffersFromDerived(inflight[s].pid) )
        => inflight[s].seen # tasks

\* both requests answered 200 after writing the row of the same project,
\* on two tasks that are still there, and the stored row, written by one
\* of them from an older snapshot, is not the derived one
C13_RaceLeavesStaleProject ==
    /\ \A s \in Slots : WroteProject(s) /\ TaskExists(tasks, inflight[s].id)
    /\ inflight[1].pid = inflight[2].pid
    /\ inflight[1].id # inflight[2].id
    /\ ProjectExists(projects, inflight[1].pid)
    /\ StoredDiffersFromDerived(inflight[1].pid)
    /\ \E s \in Slots :
          /\ ProjectRow(projects, inflight[s].pid) = inflight[s].projWrite[2]
          /\ inflight[s].seen # tasks

(***************************************************************************)
(* C14: every updateRow that an updateTask request makes on the Tasks      *)
(* sheet, for the task's own row and for the cascaded parent's row, lands  *)
(* on the row that holds the id of the task written, whatever request ran  *)
(* between the handler's read and the write.                               *)
(***************************************************************************)
\* the write w = << rowNumber, row >> of a task that still has a row finds
\* that row at rowNumber
LandsOnOwnRow(rows, w) ==
    TaskExists(rows, Cell(w[2], 0)) =>
        /\ (w[1] - 1) \in 1..Len(rows)
        /\ Cell(rows[w[1] - 1], 0) = Cell(w[2], 0)

C14_WritesLandOnOwnRow ==
    [][ \A s \in Slots :
          /\ (inflight[s].pc = "updateRow" /\ inflight'[s].pc # "updateRow")
                => LandsOnOwnRow(tasks, inflight[s].ownWrite)
          /\ (inflight[s].pc = "updateParent" /\ inflight'[s].pc # "updateParent")
                => LandsOnOwnRow(tasks, inflight[s].parentWrite) ]_vars

(***************************************************************************)
(* C15: a recalculation for a project id without a row in Projects writes  *)
(* nothing, raises nothing and returns null, and the createTask,           *)
(* updateTask or deleteTask that made it answers with success.             *)
(***************************************************************************)
C15_MissingProjectIsNoOp ==
    [][ ( /\ ret'.op \in {"createTask", "updateTask", "deleteTask",
                          "recalcProjectProgress"}
          /\ ret'.kind # "none"
          /\ ~ProjectExists(projects, ret'.pid) )
        => ( /\ ret'.kind = "null"
             /\ projects' = projects
             /\ ret'.op = "recalcProjectProgress" => tasks' = tasks
             /\ ret'.op # "recalcProjectProgress" => ret'.code \in {200, 201} ) ]_vars

\* an updateTask of a task whose project was created and deleted answered
\* 200 after a recalculation that returned null
C15_Witness ==
    /\ ret.op = "updateTask"
    /\ ret.kind = "null"
    /\ ret.code = 200
    /\ ret.pid \in ProjectIdsSoFar
    /\ ~ProjectExists(projects, ret.pid)
    /\ TaskExists(tasks, ret.id)

(***************************************************************************)
(* C16: a recalculation of project P changes nothing but the status and    *)
(* the progress of P's row: the other six fields of the row, every other   *)
(* Projects row and, in a direct call, every Tasks row stay as they were.  *)
(***************************************************************************)
\* rows `after` are rows `before` but for the status and progress of pid
OnlyStatusAndProgressOf(before, after, pid) ==
    /\ Len(after) = Len(before)
    /\ \A i \in 1..Len(before) :
          IF Cell(before[i], 0) = pid
          THEN \A c \in 0..5 : Cell(after[i], c) = Cell(before[i], c)
          ELSE after[i] = before[i]

C16_RecalculationFrame ==
    [][ ( /\ ret'.op \in {"createTask", "updateTask", "deleteTask",
                          "recalcProjectProgress"}
          /\ ret'.kind \in {"wrote", "threw", "null"} )
        => ( /\ OnlyStatusAndProgressOf(projects, projects', ret'.pid)
             /\ ret'.op = "recalcProjectProgress" => tasks' = tasks ) ]_vars

\* a direct recalculation wrote a project's row next to another project's
\* row, with task rows in the sheet
C16_Witness ==
    /\ ret.op = "recalcProjectProgress"
    /\ ret.kind = "wrote"
    /\ Len(projects) = 2
    /\ Len(tasks) > 0
    /\ StoredStatus(ret.pid) = "In Progress"
    /\ ProjectRow(projects, ret.pid)[3] = "owner@x.com"

(***************************************************************************)
(* Sweeps with a transport that refuses some dispatches.                   *)
(***************************************************************************)
MaxFailTasks == 2      \* task ids generated in one behaviour of FailSpec
MaxFailProjects == 1   \* project ids generated in one behaviour of FailSpec

\* the job reads its due date from the StartDate column: the first date is
\* 2 days after the day of the sweeps, the second 2 days before
FailTaskBodies ==
    { Body(c) : c \in [ title : {"T"}, projectId : {NewProjectId(1)},
                        assignedTo : {"a@x.com", "b@x.com"},
                        startDate : {DayName[5], DayName[1], Absent} ] }

FailNext ==
    \/ \E data \in RaceProjectBodies :
          nextProject <= MaxFailProjects /\ createProject(data) /\ UNCHANGED <<inflight, log>>
    \/ \E body \in FailTaskBodies :
          nextTask <= MaxFailTasks /\ createTask(body) /\ UNCHANGED <<inflight, log>>
    \/ \E failing \in SUBSET (1..Len(tasks)) :
          sendTaskRemindersFailing(failing) /\ UNCHANGED <<inflight, log>>

FailSpec == Init /\ [][FailNext]_vars

(***************************************************************************)
(* C17: a dispatch that fails for one task does not end the sweep: the     *)
(* sweep returns success, every task after it whose dispatch does not fail *)
(* gets its reminder, and remindersSent is the number of reminders         *)
(* delivered, which is the length of the reminders list.                   *)
(***************************************************************************)
\* the reminders of the rows from position k on whose dispatch is accepted
RECURSIVE AcceptedReminders(_, _, _, _)
AcceptedReminders(rows, now, failing, k) ==
    IF k > Len(rows) THEN << >>
    ELSE (IF k \in failing THEN << >> ELSE ReminderFor(rows[k], now))
         \o AcceptedReminders(rows, now, failing, k + 1)

C17_FailedDispatchDoesNotAbort ==
    ret.op = "sendTaskReminders" =>
        /\ ret.sweep.success
        /\ mail = AcceptedReminders(tasks, ret.sweep.day, ret.sweep.failing, 1)
        /\ ret.sweep.remindersSent = Len(mail)
        /\ Len(ret.sweep.reminders) = ret.sweep.remindersSent

\* the dispatch for the first row failed and the second row's reminder was
\* delivered and counted
C17_Witness ==
    /\ ret.op = "sendTaskReminders"
    /\ Len(tasks) = 2
    /\ ret.sweep.failing = {1}
    /\ ReminderFor(tasks[1], ret.sweep.day) # << >>
    /\ ReminderFor(tasks[2], ret.sweep.day) # << >>
    /\ mail = ReminderFor(tasks[2], ret.sweep.day)
    /\ ret.sweep.remindersSent = 1

C20_SweepIsReadOnly ==
    [][ ret'.op = "sendTaskReminders"
        => (tasks' = tasks /\ projects' = projects) ]_vars

\* a sweep over two tasks and a project, one dispatch accepted and one
\* refused
C20_Witness ==
    /\ ret.op = "sendTaskReminders"
    /\ Len(tasks) = 2
    /\ Len(projects) > 0
    /\ ret.sweep.remindersSent > 0
    /\ \E i \in ret.sweep.failing : ReminderFor(tasks[i], ret.sweep.day) # << >>

(***************************************************************************)
(* The job on its daily schedule ('0 9 * * *'): at most one sweep a day,   *)
(* over tasks that are created and then left alone.                        *)
(***************************************************************************)
MaxDailyTasks == 2   \* task ids generated in one behaviour of DailySpec
MaxDailyDay == 7     \* last calendar day a behaviour of DailySpec reaches

DailyTaskBodies ==
    { Body(c) : c \in [ title : {"T"}, projectId : {"p1"},
                        assignedTo : {"a@x.com"},
                        startDate : {DayName[5], Absent},
                        dueDate : {DayName[5], DayName[7]},
                        status : {"In Progress"} ] }

\* the reminders of one sweep that the transport accepted, each with the id
\* of its task and the day of the sweep
Dispatches(rows, now, failing) ==
    { [task |-> Cell(rows[i], 0), day |-> now,
       subject |-> ReminderFor(rows[i], now)[1].subject] :
        i \in {k \in (1..Len(rows)) \ failing : ReminderFor(rows[k], now) # << >>} }

\* the job fired by the schedule, once on a day
ScheduledSweep ==
    /\ today \notin log.days
    /\ sendTaskReminders
    /\ log' = [days |-> log.days \cup {today},
               swept |-> log.swept \cup
                         {[task |-> Cell(tasks[i], 0), day |-> today] : i \in 1..Len(tasks)},
               sent |-> log.sent \cup Dispatches(tasks, today, {})]

DailyNext ==
    \/ \E body \in DailyTaskBodies :
          nextTask <= MaxDailyTasks /\ createTask(body) /\ UNCHANGED <<inflight, log>>
    \/ ScheduledSweep /\ UNCHANGED inflight
    \/ today < MaxDailyDay /\ NextDay /\ UNCHANGED <<inflight, log>>

DailySpec == Init /\ [][DailyNext]_vars

(***************************************************************************)
(* C19: with at most one sweep a day and the tasks left unchanged, a task  *)
(* gets at most one 'due in 2 days' and at most one '2 days overdue'       *)
(* reminder, and it gets each of them from the sweep that runs 2 days      *)
(* before, and 2 days after, the date in its DueDate column.               *)
(***************************************************************************)
UpcomingSubject == "Reminder: due in 2 days"
OverdueSubject == "Overdue Reminder: 2 days overdue"

\* the reminders of one kind that a task received over the behaviour
Received(id, subject) == {e \in log.sent : e.task = id /\ e.subject = subject}

\* the task is one the job is to remind: assigned, not Completed, with a
\* due date
Remindable(row) ==
    Cell(row, 4) # "" /\ ~IsDone(row) /\ NewDate(Cell(row, 7)).valid

C19_AtMostOncePerEdge ==
    \A i \in 1..Len(tasks) :
        /\ Cardinality(Received(Cell(tasks[i], 0), UpcomingSubject)) <= 1
        /\ Cardinality(Received(Cell(tasks[i], 0), OverdueSubject)) <= 1

C19_SentAtEachEdge ==
    \A s \in log.swept :
        \A i \in {k \in 1..Len(tasks) : Cell(tasks[k], 0) = s.task} :
            Remindable(tasks[i]) =>
              /\ NewDate(Cell(tasks[i], 7)).day - s.day = 2
                    => \E e \in Received(s.task, UpcomingSubject) : e.day = s.day
              /\ NewDate(Cell(tasks[i], 7)).day - s.day = -2
                    => \E e \in Received(s.task, OverdueSubject) : e.day = s.day

C19_OncePerEdgeOnDailySchedule ==
    C19_AtMostOncePerEdge /\ C19_SentAtEachEdge

(***************************************************************************)
(* The job over tasks whose date fields hold text that is not a date.      *)
(***************************************************************************)
MaxMalformedTasks == 2   \* task ids generated in one behaviour of MalformedSpec

MalformedTaskBodies ==
    { Body(c) : c \in [ title : {"T"}, projectId : {"p1"},
                        assignedTo : {"a@x.com", "b@x.com"},
                        startDate : {DayName[5], "soon", Absent},
                        dueDate : {DayName[5], "soon", Absent} ] }

MalformedNext ==
    \/ \E body \in MalformedTaskBodies :
          nextTask <= MaxMalformedTasks /\ createTask(body) /\ UNCHANGED <<inflight, log>>
    \/ sendTaskReminders /\ UNCHANGED <<inflight, log>>

MalformedSpec == Init /\ [][MalformedNext]_vars

(***************************************************************************)
(* C21: a task whose DueDate does not parse as a date gets no reminder and *)
(* the sweep sends what it would send if the task were not in the sheet.   *)
(***************************************************************************)
HasMalformedDueDate(row) == Cell(row, 7) # "" /\ ~NewDate(Cell(row, 7)).valid

\* the same for the column the job reads its due date from
HasMalformedReadDate(row) == Cell(row, 5) # "" /\ ~NewDate(Cell(row, 5)).valid

C21_MalformedDueDateIsSkipped ==
    ret.op = "sendTaskReminders" =>
        mail = SweepRows(SweepStart,
                         SelectSeq(tasks, LAMBDA r : ~HasMalformedDueDate(r)),
                         today, {}, 1).delivered

C21_MalformedReadDateIsSkipped ==
    ret.op = "sendTaskReminders" =>
        mail = SweepRows(SweepStart,
                         SelectSeq(tasks, LAMBDA r : ~HasMalformedReadDate(r)),
                         today, {}, 1).delivered

(***************************************************************************)
(* The task handlers with an environment that refuses a Projects write or  *)
(* the e-mails of a request.                                               *)
(***************************************************************************)
MaxFaultTasks == 2      \* task ids generated in one behaviour of FaultSpec
MaxFaultProjects == 1   \* project ids generated in one behaviour of FaultSpec

FaultTaskBodies ==
    { Body(c) : c \in [ title : {"T"}, projectId : {NewProjectId(1)},
                        assignedTo : {"a@x.com", Absent},
                        parentTaskId : TaskIdsSoFar \cup {Absent} ] }

FaultUpdateBodies ==
    { Body(c) : c \in [ status : {"In Progress", "Completed", Absent},
                        assignedTo : {"b@x.com", Absent} ] }

FaultNext ==
    \/ \E data \in RaceProjectBodies :
          nextProject <= MaxFaultProjects /\ createProject(data) /\ UNCHANGED <<inflight, log>>
    \/ \E body \in FaultTaskBodies, faults \in Faults :
          nextTask <= MaxFaultTasks /\ createTaskFailing(body, faults)
                                   /\ UNCHANGED <<inflight, log>>
    \/ \E id \in TaskIdsSoFar, update \in FaultUpdateBodies, faults \in Faults :
          updateTaskFailing(id, update, faults) /\ UNCHANGED <<inflight, log>>
    \/ \E id \in TaskIdsSoFar, faults \in Faults :
          findIndex(tasks, id) # -1 /\ deleteTaskFailing(id, faults)
                                    /\ UNCHANGED <<inflight, log>>

FaultSpec == Init /\ [][FaultNext]_vars

(***************************************************************************)
(* C22: when the Projects write of recalcProjectProgress is refused, the   *)
(* createTask, updateTask or deleteTask that triggered it answers with a   *)
(* failure, the task row it wrote, appended or deleted stays so, and the   *)
(* Projects sheet is left as it was (the write is not tried again).        *)
(***************************************************************************)
\* the latest request came to the updateRow of recalcProjectProgress(pid)
\* while the environment refused Projects writes: the derivation, run on
\* the task rows the request left, has a row to write
WriteAttempted ==
    /\ ret'.op \in {"createTask", "updateTask", "deleteTask"}
    /\ "updateRow" \in ret'.faults
    /\ recalcProjectProgress(tasks', projects, ret'.pid).kind = "wrote"

\* the row the request appended or wrote is in the sheet, the row it
\* deleted is not
TaskChangePersisted ==
    CASE ret'.op = "createTask" ->
            tasks' = Append(tasks, ret'.wrote) /\ Cell(ret'.wrote, 0) = ret'.id
      [] ret'.op = "updateTask" ->
            /\ TaskExists(tasks', ret'.id)
            /\ TaskRow(tasks', ret'.id) = ret'.wrote
            /\ Cell(ret'.wrote, 0) = ret'.id
      [] ret'.op = "deleteTask" ->
            /\ TaskExists(tasks, ret'.id)
            /\ ~TaskExists(tasks', ret'.id)
            /\ Len(tasks') = Len(tasks) - 1
      [] OTHER -> TRUE

C22_RefusedWriteFailsRequestKeepsTask ==
    [][ WriteAttempted
        => (ret'.code = 500 /\ projects' = projects /\ TaskChangePersisted) ]_vars

\* an updateTask answered 500 for a refused write; its task is In Progress
\* in the sheet and the project still Not Started
C22_Witness ==
    /\ ret.op = "updateTask"
    /\ ret.kind = "refused"
    /\ ret.code = 500
    /\ TaskExists(tasks, ret.id)
    /\ IsBusy(TaskRow(tasks, ret.id))
    /\ Cell(TaskRow(tasks, ret.id), 10) = ""
    /\ ProjectExists(projects, ret.pid)
    /\ StoredStatus(ret.pid) = "Not Started"

(***************************************************************************)
(* C23: when the e-mails of a createTask or updateTask are refused, the    *)
(* request answers what the derivation alone decides (success unless       *)
(* recalcProjectProgress threw), and the task row and the project row it   *)
(* wrote stay written.                                                     *)
(***************************************************************************)
C23_RefusedMailLeavesRequestAlone ==
    [][ ( /\ ret'.op \in {"createTask", "updateTask"}
          /\ ret'.faults = {"sendEmail"} )
        => \E r \in {recalcProjectProgress(tasks', projects, ret'.pid)} :
             /\ ret'.code = IF r.kind = "threw" THEN 500
                            ELSE IF ret'.op = "createTask" THEN 201 ELSE 200
             /\ TaskChangePersisted
             /\ projects' = r.projects
             /\ mail' = << >> ]_vars

\* a createTask for an assignee answered 201 although its e-mail was
\* refused; the task row and the recalculated project row are in the sheets
C23_Witness ==
    /\ ret.op = "createTask"
    /\ ret.code = 201
    /\ ret.faults = {"sendEmail"}
    /\ ret.kind = "wrote"
    /\ Cell(ret.wrote, 4) # ""
    /\ mail = << >>
    /\ TaskExists(tasks, ret.id)
    /\ TaskRow(tasks, ret.id) = ret.wrote

\* an updateTask that assigned the task to someone else answered 200
\* although its e-mail was refused
C23_WitnessReassigned ==
    /\ ret.op = "updateTask"
    /\ ret.code = 200
    /\ ret.faults = {"sendEmail"}
    /\ ret.kind = "wrote"
    /\ Cell(ret.wrote, 4) = "b@x.com"
    /\ mail = << >>

(***************************************************************************)
(* C24: when updateTask sets a subtask to Completed and the parent's row   *)
(* is already Completed, the request writes no parent row.                 *)
(***************************************************************************)
\* every row naming `parent` as its parent task is Completed
AllSubtasksDone(rows, parent) ==
    \A i \in 1..Len(rows) : Cell(rows[i], 10) = parent => IsDone(rows[i])

C24_CompletedParentIsNotRewritten ==
    [][ ( /\ ret'.op = "updateTask"
          /\ ret'.wrote # << >>
          /\ Cell(ret'.wrote, 10) # ""
          /\ IsDone(ret'.wrote)
          /\ TaskExists(tasks, Cell(ret'.wrote, 10))
          /\ IsDone(TaskRow(tasks, Cell(ret'.wrote, 10))) )
        => /\ ret'.parent = ""
           /\ TaskRow(tasks', Cell(ret'.wrote, 10)) = TaskRow(tasks, Cell(ret'.wrote, 10)) ]_vars

\* an updateTask completed a subtask, all subtasks of its parent are
\* Completed, the parent is Completed and the request wrote no parent row
C24_Witness ==
    /\ ret.op = "updateTask"
    /\ ret.wrote # << >>
    /\ Cell(ret.wrote, 10) # ""
    /\ IsDone(ret.wrote)
    /\ TaskExists(tasks, Cell(ret.wrote, 10))
    /\ IsDone(TaskRow(tasks, Cell(ret.wrote, 10)))
    /\ AllSubtasksDone(tasks, Cell(ret.wrote, 10))
    /\ ret.parent = ""

(***************************************************************************)
(* Subtasks whose ParentTaskID names no row of the Tasks sheet: createTask *)
(* stores the parentTaskId of the body as it comes (line 172).             *)
(***************************************************************************)
MaxOrphanTasks == 2      \* task ids generated in one behaviour of OrphanSpec
MaxOrphanProjects == 1   \* project ids generated in one behaviour of OrphanSpec

\* an id that no task ever gets
NoSuchTask == "t0"

OrphanTaskBodies ==
    { Body(c) : c \in [ title : {"T"}, projectId : {NewProjectId(1)},
                        status : {"Not Started", "Completed"},
                        parentTaskId : {NoSuchTask, Absent} ] }

OrphanUpdateBodies ==
    { Body(c) : c \in [ status : {"In Progress", "Completed"} ] }

OrphanNext ==
    \/ \E data \in RaceProjectBodies :
          nextProject <= MaxOrphanProjects /\ createProject(data) /\ UNCHANGED <<inflight, log>>
    \/ \E body \in OrphanTaskBodies :
          nextTask <= MaxOrphanTasks /\ createTask(body) /\ UNCHANGED <<inflight, log>>
    \/ \E id \in TaskIdsSoFar, update \in OrphanUpdateBodies :
          updateTask(id, update) /\ UNCHANGED <<inflight, log>>

OrphanSpec == Init /\ [][OrphanNext]_vars

(***************************************************************************)
(* C25: when updateTask sets to Completed a subtask whose parentTaskId     *)
(* names no row, no parent row is written, the subtask's row is written    *)
(* and no other row of Tasks changes, recalcProjectProgress runs to its    *)
(* end for the subtask's project and the request answers 200.              *)
(***************************************************************************)
\* the latest request is an updateTask that set a subtask without a parent
\* row to Completed
CompletesOrphan ==
    /\ ret'.op = "updateTask"
    /\ ret'.wrote # << >>
    /\ Cell(ret'.wrote, 10) # ""
    /\ IsDone(ret'.wrote)
    /\ ~TaskExists(tasks, Cell(ret'.wrote, 10))

OnlyOwnRowWritten ==
    /\ Len(tasks') = Len(tasks)
    /\ \A i \in 1..Len(tasks) :
          tasks'[i] = IF Cell(tasks[i], 0) = ret'.id THEN ret'.wrote ELSE tasks[i]

\* no parent row is written and the subtask's own row is
C25_OrphanCascadeWritesNothing ==
    [][ CompletesOrphan => (ret'.parent = "" /\ OnlyOwnRowWritten) ]_vars

C25_OrphanCompletionSucceeds ==
    [][ CompletesOrphan
        => /\ ret'.parent = ""
           /\ OnlyOwnRowWritten
           /\ ret'.kind \in {"wrote", "null"}
           /\ ret'.code = 200 ]_vars

(***************************************************************************)
(* C26: the cascade stops at the parent: an updateTask changes the status  *)
(* of at most one task besides its own, and when it completes a parent     *)
(* that is a subtask itself, the row of that parent's parent is left as it *)
(* was, also when all of its subtasks are then Completed.                  *)
(***************************************************************************)
\* the positions of the rows, other than the one of task `id`, whose status
\* differs between the sheets
OtherStatusChanges(before, after, id) ==
    { i \in 1..Len(before) :
        Cell(before[i], 0) # id /\ Cell(after[i], 8) # Cell(before[i], 8) }

C26_CascadeStopsAtParent ==
    [][ (ret'.op = "updateTask" /\ ret'.wrote # << >>)
        => /\ Len(tasks') = Len(tasks)
           /\ Cardinality(OtherStatusChanges(tasks, tasks', ret'.id)) <= 1
           /\ ret'.parent # "" =>
                \A g \in {Cell(TaskRow(tasks, ret'.parent), 10)} \ {"", ret'.id, ret'.parent} :
                    TaskExists(tasks, g) => TaskRow(tasks', g) = TaskRow(tasks, g) ]_vars

\* an updateTask completed a parent that is a subtask; all subtasks of the
\* parent's parent are Completed and the parent's parent is not
C26_Witness ==
    /\ ret.op = "updateTask"
    /\ ret.parent # ""
    /\ IsDone(TaskRow(tasks, ret.parent))
    /\ \E g \in {Cell(TaskRow(tasks, ret.parent), 10)} :
          /\ g \notin {"", ret.id, ret.parent}
          /\ TaskExists(tasks, g)
          /\ AllSubtasksDone(tasks, g)
          /\ ~IsDone(TaskRow(tasks, g))

(***************************************************************************)
(* Tasks and subtasks created, updated and deleted in one project.         *)
(***************************************************************************)
MaxTriggerTasks == 3      \* task ids generated in one behaviour of TriggerSpec
MaxTriggerProjects == 1   \* project ids generated in one behaviour of TriggerSpec

TriggerNext ==
    \/ \E data \in RaceProjectBodies :
          nextProject <= MaxTriggerProjects /\ createProject(data) /\ UNCHANGED <<inflight, log>>
    \/ \E body \in CascadeTaskBodies :
          nextTask <= MaxTriggerTasks /\ createTask(body) /\ UNCHANGED <<inflight, log>>
    \/ \E id \in TaskIdsSoFar, update \in CascadeUpdateBodies :
          updateTask(id, update) /\ UNCHANGED <<inflight, log>>
    \/ \E id \in TaskIdsSoFar :
          findIndex(tasks, id) # -1 /\ deleteTask(id) /\ UNCHANGED <<inflight, log>>

TriggerSpec == Init /\ [][TriggerNext]_vars

(***************************************************************************)
(* C27: only an updateTask on a subtask changes the row of another task:   *)
(* createTask leaves every existing row as it was, deleteTask leaves every *)
(* remaining row as it was, and an updateTask on a main task writes no     *)
(* other row.  So creating a Completed subtask or deleting the last        *)
(* subtask that is not Completed does not complete the parent.             *)
(***************************************************************************)
C27_OnlySubtaskUpdateCascades ==
    [][ /\ ret'.op = "createTask"
          => /\ Len(tasks') >= Len(tasks)
             /\ \A i \in 1..Len(tasks) : tasks'[i] = tasks[i]
        /\ ret'.op = "deleteTask"
          => \A i \in 1..Len(tasks') :
                /\ TaskExists(tasks, Cell(tasks'[i], 0))
                /\ tasks'[i] = TaskRow(tasks, Cell(tasks'[i], 0))
        /\ (ret'.op = "updateTask" /\ ret'.wrote # << >> /\ Cell(ret'.wrote, 10) = "")
          => /\ ret'.parent = ""
             /\ OnlyOwnRowWritten ]_vars

\* a deleteTask deleted a subtask that was not Completed; its parent is in
\* the sheet, has subtasks, all of them Completed, and is not Completed
C27_Witness ==
    /\ ret.op = "deleteTask"
    /\ ret.wrote # << >>
    /\ ~IsDone(ret.wrote)
    /\ \E p \in {Cell(ret.wrote, 10)} :
          /\ p # ""
          /\ TaskExists(tasks, p)
          /\ ~IsDone(TaskRow(tasks, p))
          /\ \E i \in 1..Len(tasks) : Cell(tasks[i], 10) = p
          /\ AllSubtasksDone(tasks, p)

\* a createTask appended a Completed subtask, the only subtask of a parent
\* that is not Completed
C27_WitnessCreate ==
    /\ ret.op = "createTask"
    /\ ret.wrote # << >>
    /\ IsDone(ret.wrote)
    /\ \E p \in {Cell(ret.wrote, 10)} :
          /\ p # ""
          /\ TaskExists(tasks, p)
          /\ ~IsDone(TaskRow(tasks, p))
          /\ AllSubtasksDone(tasks, p)

(***************************************************************************)
(* C28: a task that createTask stores with the parentTaskId of an existing *)
(* task is stored with the projectId of that task.                         *)
(***************************************************************************)
C28_SubtaskCreatedInParentsProject ==
    [][ ( /\ ret'.op = "createTask"
          /\ ret'.wrote # << >>
          /\ Cell(ret'.wrote, 10) # ""
          /\ TaskExists(tasks, Cell(ret'.wrote, 10)) )
        => Cell(ret'.wrote, 1) = Cell(TaskRow(tasks, Cell(ret'.wrote, 10)), 1) ]_vars

(***************************************************************************)
(* frontend/src/utils/taskOverlap.js, as the timeline views call it        *)
(* (GanttChart.jsx) and as README.md and the specification describe it.    *)
(***************************************************************************)
MaxOverlapDay == 3   \* last calendar day among the arguments of OverlapSpec

\* open intervals: ranges that only touch do not overlap
datesOverlap_OpenIntervals(start1, end1, start2, end2) ==
    /\ NewDate(start1).day < NewDate(end2).day
    /\ NewDate(start2).day < NewDate(end1).day

\* datesOverlap(start1, end1, start2, end2): the date strings are compared
\* as dates
datesOverlap(start1, end1, start2, end2) ==
    /\ NewDate(start1).day <= NewDate(end2).day
    /\ NewDate(start2).day <= NewDate(end1).day

\* tasksOverlap looking for missing dates in its first argument only
tasksOverlap_ChecksFirstTaskOnly(taskA, taskB) ==
    IF taskA.startDate = "" \/ taskA.endDate = ""
    THEN FALSE
    ELSE datesOverlap(taskA.startDate, taskA.endDate, taskB.startDate, taskB.endDate)

\* tasksOverlap looking for missing end dates only
tasksOverlap_IgnoresStartDates(taskA, taskB) ==
    IF taskA.endDate = "" \/ taskB.endDate = ""
    THEN FALSE
    ELSE datesOverlap(taskA.startDate, taskA.endDate, taskB.startDate, taskB.endDate)

\* tasksOverlap(taskA, taskB): false when a start or an end date is missing
tasksOverlap(taskA, taskB) ==
    IF \/ taskA.startDate = "" \/ taskA.endDate = ""
       \/ taskB.startDate = "" \/ taskB.endDate = ""
    THEN FALSE
    ELSE datesOverlap(taskA.startDate, taskA.endDate, taskB.startDate, taskB.endDate)

\* findOverlappingTasks comparing every task of the list, the task itself
\* included
findOverlappingTasks_KeepsSelf(task, allTasks) ==
    LET Overlapping(t) == tasksOverlap(task, t)
        found == SelectSeq(allTasks, Overlapping)
    IN [i \in 1..Len(found) |-> found[i].id]

\* findOverlappingTasks(task, allTasks): the ids, in list order, of the
\* tasks of allTasks with another id that overlap task
findOverlappingTasks(task, allTasks) ==
    LET Overlapping(t) == t.id # task.id /\ tasksOverlap(task, t)
        found == SelectSeq(allTasks, Overlapping)
    IN [i \in 1..Len(found) |-> found[i].id]

\* getOverlapWarnings comparing each task with the tasks after it in the
\* list only
getOverlapWarnings_ForwardOnly(taskList) ==
    [ id \in { taskList[i].id : i \in { k \in 1..Len(taskList) :
                                            /\ taskList[k].startDate # ""
                                            /\ taskList[k].endDate # "" } } |->
        findOverlappingTasks(
            taskList[CHOOSE i \in 1..Len(taskList) : taskList[i].id = id],
            SubSeq(taskList, (CHOOSE i \in 1..Len(taskList) : taskList[i].id = id) + 1,
                   Len(taskList))) ]

\* getOverlapWarnings(tasks): for every task with both dates, the ids it
\* overlaps with, by pairwise comparison across the list
getOverlapWarnings(taskList) ==
    [ id \in { taskList[i].id : i \in { k \in 1..Len(taskList) :
                                            /\ taskList[k].startDate # ""
                                            /\ taskList[k].endDate # "" } } |->
        findOverlappingTasks(
            taskList[CHOOSE i \in 1..Len(taskList) : taskList[i].id = id],
            taskList) ]

MaxOverlapTasks == 3     \* longest task list handed to the list functions
MaxOverlapListDay == 2   \* last calendar day among the dates of those lists

OverlapDates == {DayName[d] : d \in 1..MaxOverlapDay}

OverlapListDates == {DayName[d] : d \in 1..MaxOverlapListDay} \cup {""}

\* the task list the timeline views hand over for the date pairs d: the k-th
\* task has the k-th id
OverlapTaskList(d) ==
    [k \in DOMAIN d |-> [id |-> NewTaskId(k), startDate |-> d[k][1],
                          endDate |-> d[k][2]]]

CallFindOverlappingTasks(task, allTasks) ==
    /\ UNCHANGED <<tasks, projects, nextTask, nextProject, today, mail>>
    /\ ret' = [Answer("findOverlappingTasks", 0, "", "", NotCalled, 0)
                  EXCEPT !.call = [task |-> task, allTasks |-> allTasks,
                                   result |-> findOverlappingTasks(task, allTasks)]]

CallGetOverlapWarnings(taskList) ==
    /\ UNCHANGED <<tasks, projects, nextTask, nextProject, today, mail>>
    /\ ret' = [Answer("getOverlapWarnings", 0, "", "", NotCalled, 0)
                  EXCEPT !.call = [allTasks |-> taskList,
                                   result |-> getOverlapWarnings(taskList)]]

\* the tasks handed to tasksOverlap: "" is a missing date
OverlapTasks == [startDate : OverlapDates \cup {""}, endDate : OverlapDates \cup {""}]

CallDatesOverlap(start1, end1, start2, end2) ==
    /\ UNCHANGED <<tasks, projects, nextTask, nextProject, today, mail>>
    /\ ret' = [Answer("datesOverlap", 0, "", "", NotCalled, 0)
                  EXCEPT !.call = [start1 |-> start1, end1 |-> end1,
                                   start2 |-> start2, end2 |-> end2,
                                   result |-> datesOverlap(start1, end1, start2, end2)]]

CallTasksOverlap(taskA, taskB) ==
    /\ UNCHANGED <<tasks, projects, nextTask, nextProject, today, mail>>
    /\ ret' = [Answer("tasksOverlap", 0, "", "", NotCalled, 0)
                  EXCEPT !.call = [taskA |-> taskA, taskB |-> taskB,
                                   result |-> tasksOverlap(taskA, taskB)]]

OverlapNext ==
    \/ \E start1 \in OverlapDates, end1 \in OverlapDates,
          start2 \in OverlapDates, end2 \in OverlapDates :
          CallDatesOverlap(start1, end1, start2, end2) /\ UNCHANGED <<inflight, log>>
    \/ \E taskA \in OverlapTasks, taskB \in OverlapTasks :
          CallTasksOverlap(taskA, taskB) /\ UNCHANGED <<inflight, log>>

OverlapSpec == Init /\ [][OverlapNext]_vars

\* the timeline view holds one task list and applies the list functions to it
OverlapListInit ==
    /\ tasks = << >>
    /\ projects = << >>
    /\ nextTask = 1
    /\ nextProject = 1
    /\ today = 3
    /\ mail = << >>
    /\ \E n \in 1..MaxOverlapTasks :
          \E d \in [1..n -> OverlapListDates \X OverlapListDates] :
             ret = [Answer("none", 0, "", "", NotCalled, 0)
                      EXCEPT !.call = [allTasks |-> OverlapTaskList(d)]]
    /\ inflight = [s \in Slots |-> Idle]
    /\ log = [days |-> {}, swept |-> {}, sent |-> {}]

OverlapListNext ==
    \/ \E i \in 1..Len(ret.call.allTasks) :
          /\ CallFindOverlappingTasks(ret.call.allTasks[i], ret.call.allTasks)
          /\ UNCHANGED <<inflight, log>>
    \/ CallGetOverlapWarnings(ret.call.allTasks) /\ UNCHANGED <<inflight, log>>

OverlapListSpec == OverlapListInit /\ [][OverlapListNext]_vars

(***************************************************************************)
(* C29: datesOverlap(start1, end1, start2, end2) is true exactly when      *)
(* start1 <= end2 and start2 <= end1: two ranges that touch at one day     *)
(* (end1 = start2) overlap, two ranges with start2 after end1 do not.      *)
(***************************************************************************)
\* the day of a date string of OverlapDates
DayOf(s) == CHOOSE d \in 1..Len(DayName) : DayName[d] = s

\* the days from start to end, both included
DaysOfRange(start, end) == {d \in 1..Len(DayName) : DayOf(start) <= d /\ d <= DayOf(end)}

C29_DatesOverlapIsClosedIntervalTest ==
    ret.op = "datesOverlap" =>
        /\ ret.call.result <=> ( /\ DayOf(ret.call.start1) <= DayOf(ret.call.end2)
                                 /\ DayOf(ret.call.start2) <= DayOf(ret.call.end1) )
        /\ ( /\ DayOf(ret.call.start1) <= DayOf(ret.call.end1)
             /\ DayOf(ret.call.start2) <= DayOf(ret.call.end2) )
           => ( ret.call.result <=>
                  DaysOfRange(ret.call.start1, ret.call.end1)
                    \cap DaysOfRange(ret.call.start2, ret.call.end2) # {} )
        /\ DayOf(ret.call.start2) > DayOf(ret.call.end1) => ~ret.call.result

\* two ranges of more than a day with end1 = start2 were found to overlap
C29_Witness ==
    /\ ret.op = "datesOverlap"
    /\ ret.call.end1 = ret.call.start2
    /\ DayOf(ret.call.start1) < DayOf(ret.call.end1)
    /\ DayOf(ret.call.start2) < DayOf(ret.call.end2)
    /\ ret.call.result

(***************************************************************************)
(* C30: tasksOverlap(A, B) = tasksOverlap(B, A) for all tasks A and B,     *)
(* with or without missing dates.                                          *)
(***************************************************************************)
C30_TasksOverlapIsSymmetric ==
    ret.op = "tasksOverlap" =>
        ret.call.result = tasksOverlap(ret.call.taskB, ret.call.taskA)

\* a task with both dates and a task without an end date, whose start is
\* inside the range of the first, were found not to overlap
C30_Witness ==
    /\ ret.op = "tasksOverlap"
    /\ ret.call.taskA.startDate # "" /\ ret.call.taskA.endDate # ""
    /\ ret.call.taskB.startDate = ret.call.taskA.startDate
    /\ ret.call.taskB.endDate = ""
    /\ ~ret.call.result

(***************************************************************************)
(* C31: tasksOverlap(A, B) is false when A or B has no startDate or no     *)
(* endDate, and is datesOverlap of the four dates otherwise.               *)
(***************************************************************************)
HasBothDates(task) == task.startDate # "" /\ task.endDate # ""

C31_TasksOverlapDelegatesToDates ==
    ret.op = "tasksOverlap" =>
        ret.call.result =
            IF HasBothDates(ret.call.taskA) /\ HasBothDates(ret.call.taskB)
            THEN ( /\ DayOf(ret.call.taskA.startDate) <= DayOf(ret.call.taskB.endDate)
                   /\ DayOf(ret.call.taskB.startDate) <= DayOf(ret.call.taskA.endDate) )
            ELSE FALSE

\* a task without an end date and a task whose range holds the start of the
\* first were found not to overlap
C31_Witness ==
    /\ ret.op = "tasksOverlap"
    /\ ret.call.taskA.startDate # "" /\ ret.call.taskA.endDate = ""
    /\ HasBothDates(ret.call.taskB)
    /\ DayOf(ret.call.taskB.startDate) <= DayOf(ret.call.taskA.startDate)
    /\ DayOf(ret.call.taskA.startDate) <= DayOf(ret.call.taskB.endDate)
    /\ ~ret.call.result

\* two tasks with all four dates were found to overlap
C31_WitnessOverlapping ==
    /\ ret.op = "tasksOverlap"
    /\ HasBothDates(ret.call.taskA) /\ HasBothDates(ret.call.taskB)
    /\ ret.call.taskA # ret.call.taskB
    /\ ret.call.result

(***************************************************************************)
(* C32: findOverlappingTasks(task, allTasks) returns exactly the ids of    *)
(* the tasks of allTasks, other than task, that overlap task; the id of    *)
(* task is never in the result, also when task overlaps itself.            *)
(***************************************************************************)
\* the set of the elements of a sequence
Elements(seq) == {seq[i] : i \in 1..Len(seq)}

C32_FindReturnsOverlappingOthers ==
    ret.op = "findOverlappingTasks" =>
        /\ Elements(ret.call.result) =
              { t.id : t \in { u \in Elements(ret.call.allTasks) :
                                  u.id # ret.call.task.id /\ tasksOverlap(ret.call.task, u) } }
        /\ ret.call.task.id \notin Elements(ret.call.result)
        /\ \A i \in 1..Len(ret.call.result), j \in 1..Len(ret.call.result) :
              ret.call.result[i] = ret.call.result[j] => i = j

\* a task that overlaps itself and another task of the list: the result
\* holds the other id and not its own
C32_Witness ==
    /\ ret.op = "findOverlappingTasks"
    /\ tasksOverlap(ret.call.task, ret.call.task)
    /\ ret.call.task \in Elements(ret.call.allTasks)
    /\ Len(ret.call.result) >= 1
    /\ ret.call.task.id \notin Elements(ret.call.result)

(***************************************************************************)
(* C33: getOverlapWarnings(tasks) lists under each task id a exactly the   *)
(* ids b # a with tasksOverlap(a, b); so b is listed under a if and only   *)
(* if a is listed under b, and a task missing a start or an end date is    *)
(* listed under no id and has no overlaps listed.                          *)
(***************************************************************************)
\* the ids the warnings list under id: none when the map has no such key
ListedUnder(warnings, id) ==
    IF id \in DOMAIN warnings THEN Elements(warnings[id]) ELSE {}

C33_WarningsArePairwiseOverlaps ==
    ret.op = "getOverlapWarnings" =>
        /\ \A a \in Elements(ret.call.allTasks) :
              ListedUnder(ret.call.result, a.id) =
                 { b.id : b \in { u \in Elements(ret.call.allTasks) :
                                     u.id # a.id /\ tasksOverlap(a, u) } }
        /\ \A a \in Elements(ret.call.allTasks), b \in Elements(ret.call.allTasks) :
              b.id \in ListedUnder(ret.call.result, a.id)
                 <=> a.id \in ListedUnder(ret.call.result, b.id)
        /\ \A a \in Elements(ret.call.allTasks) :
              ~HasBothDates(a) =>
                 /\ ListedUnder(ret.call.result, a.id) = {}
                 /\ \A b \in Elements(ret.call.allTasks) :
                       a.id \notin ListedUnder(ret.call.result, b.id)
        /\ DOMAIN ret.call.result \subseteq {a.id : a \in Elements(ret.call.allTasks)}

\* three tasks: two overlap and are listed under each other, the third has
\* an end date only and is listed nowhere
C33_Witness ==
    /\ ret.op = "getOverlapWarnings"
    /\ Len(ret.call.allTasks) = 3
    /\ \E a \in Elements(ret.call.allTasks), b \in Elements(ret.call.allTasks),
          c \in Elements(ret.call.allTasks) :
          /\ a.id # b.id
          /\ ListedUnder(ret.call.result, a.id) = {b.id}
          /\ ListedUnder(ret.call.result, b.id) = {a.id}
          /\ c.startDate = "" /\ c.endDate # ""
          /\ ListedUnder(ret.call.result, c.id) = {}

\* a task overlapping both of two tasks that do not overlap each other
C33_WitnessChain ==
    /\ ret.op = "getOverlapWarnings"
    /\ \E a \in Elements(ret.call.allTasks), b \in Elements(ret.call.allTasks),
          c \in Elements(ret.call.allTasks) :
          /\ ListedUnder(ret.call.result, b.id) = {a.id, c.id}
          /\ ListedUnder(ret.call.result, a.id) = {b.id}
          /\ ListedUnder(ret.call.result, c.id) = {b.id}
          /\ a.id # c.id

(***************************************************************************)
(* C34: every createTask, updateTask or deleteTask that leaves all main    *)
(* tasks of a project Completed, the project being stored with another     *)
(* status, changes the stored status to Completed and dispatches a         *)
(* completion e-mail to the project's owner.                               *)
(***************************************************************************)
C34_EveryCompletionNotifiesOwner ==
    [][ ( /\ ret'.op \in {"createTask", "updateTask", "deleteTask"}
          /\ ret'.id # ""
          /\ ProjectExists(projects, ret'.pid)
          /\ toLowerCase(ProjectRow(projects, ret'.pid)[7]) # "completed"
          /\ ProjectRow(projects, ret'.pid)[3] # ""
          /\ \E i \in 1..Len(tasks') :
                Cell(tasks'[i], 1) = ret'.pid /\ Cell(tasks'[i], 10) = ""
          /\ \A i \in 1..Len(tasks') :
                (Cell(tasks'[i], 1) = ret'.pid /\ Cell(tasks'[i], 10) = "")
                    => IsDone(tasks'[i]) )
        => ( /\ ProjectExists(projects', ret'.pid)
             /\ ProjectRow(projects', ret'.pid)[7] = "Completed"
             /\ CompletionMails(mail', ProjectRow(projects, ret'.pid)[3]) >= 1 ) ]_vars

(***************************************************************************)
(* deleteTask as the event loop runs it: the handler is suspended at the   *)
(* sheet read of line 409, at the reads inside deleteRowByIndex, at its    *)
(* batchUpdate and at the awaits of recalcProjectProgress; other requests  *)
(* run in between.                                                         *)
(***************************************************************************)
\* a deleteTask request: ownWrite holds the index found on line 416, rows
\* the rows read on line 409, the other fields are those of Request
DeleteRequest(pc, id, pid, code, index, rows) ==
    [ pc |-> pc, id |-> id, pid |-> pid, code |-> code, ownWrite |-> index,
      parentWrite |-> << >>, seen |-> << >>, projWrite |-> << >>,
      rows |-> rows ]

\* lines 403-423 of deleteTask: the request arrives, reads the Tasks sheet
\* and finds the index of the task and its project
DeleteTaskRead(s, id) ==
    /\ inflight[s].pc = "idle"
    /\ \A q \in 1..(s - 1) : inflight[q].pc # "idle"
    /\ UNCHANGED <<tasks, projects, nextTask, nextProject, today, mail, ret, log>>
    /\ \E rows \in {tasks} :
       \E index \in {findIndex(rows, id)} :
         IF Len(rows) = 0 \/ index = -1
         THEN inflight' = [inflight EXCEPT ![s] =
                  DeleteRequest("done", id, "", 404, << >>, rows)]
         ELSE inflight' = [inflight EXCEPT ![s] =
                  DeleteRequest("deleteValidate", id, Cell(rows[index + 1], 1), 0,
                                << index >>, rows)]

\* lines 297-312 of deleteRowByIndex: the sheet is read again to validate
\* the index; without data rows the function returns, with an index past
\* the last data row it throws and deleteTask answers 500
DeleteTaskValidate(s) ==
    /\ inflight[s].pc = "deleteValidate"
    /\ UNCHANGED <<tasks, projects, nextTask, nextProject, today, mail, ret, log>>
    /\ inflight' = [inflight EXCEPT ![s] =
           IF Len(tasks) = 0
           THEN (IF inflight[s].pid # ""
                 THEN [@ EXCEPT !.pc = "recalcReadTasks"]
                 ELSE [@ EXCEPT !.pc = "done", !.code = 200])
           ELSE IF inflight[s].ownWrite[1] >= Len(tasks)
           THEN [@ EXCEPT !.pc = "done", !.code = 500]
           ELSE [@ EXCEPT !.pc = "batchUpdate"]]

\* lines 322-340 of deleteRowByIndex: the row at the index of line 416 is
\* removed; lines 433-436 of deleteTask: the recalculation follows when the
\* task had a project
DeleteTaskBatch(s) ==
    /\ inflight[s].pc = "batchUpdate"
    /\ UNCHANGED <<projects, nextTask, nextProject, today, mail, ret, log>>
    /\ tasks' = deleteRowByIndex(tasks, inflight[s].ownWrite[1])
    /\ inflight' = [inflight EXCEPT ![s] =
           IF inflight[s].pid # ""
           THEN [@ EXCEPT !.pc = "recalcReadTasks"]
           ELSE [@ EXCEPT !.pc = "done", !.code = 200]]

MaxDeleteRaceTasks == 3      \* task ids generated in one behaviour of DeleteRaceSpec
MaxDeleteRaceProjects == 2   \* project ids generated in one behaviour of DeleteRaceSpec

DeleteRaceTaskBodies ==
    { Body(c) : c \in [ title : {"T"}, projectId : ProjectIdsSoFar,
                        status : {"In Progress"} ] }

DeleteRaceProjectUpdates ==
    { Body(c) : c \in [ name : {"Q"} ] }

\* projects and tasks are created, then two deleteTask requests are
\* interleaved at their awaits, next to project requests that run from
\* arrival to response
DeleteRaceNext ==
    \/ \E data \in RaceProjectBodies :
          /\ nextProject <= MaxDeleteRaceProjects
          /\ \A s \in Slots : inflight[s].pc = "idle"
          /\ createProject(data) /\ UNCHANGED <<inflight, log>>
    \/ \E body \in DeleteRaceTaskBodies :
          /\ nextTask <= MaxDeleteRaceTasks
          /\ \A s \in Slots : inflight[s].pc = "idle"
          /\ createTask(body) /\ UNCHANGED <<inflight, log>>
    \/ \E id \in ProjectIdsSoFar, update \in DeleteRaceProjectUpdates :
          /\ findIndex(projects, id) # -1
          /\ updateProject(id, update) /\ UNCHANGED <<inflight, log>>
    \/ \E id \in ProjectIdsSoFar :
          /\ findIndex(projects, id) # -1
          /\ deleteProject(id) /\ UNCHANGED <<inflight, log>>
    \/ \E s \in Slots, id \in TaskIdsSoFar : DeleteTaskRead(s, id)
    \/ \E s \in Slots : DeleteTaskValidate(s)
    \/ \E s \in Slots : DeleteTaskBatch(s)
    \/ \E s \in Slots : RecalcReadTasks(s)
    \/ \E s \in Slots : RecalcReadProjects(s)
    \/ \E s \in Slots : RecalcWrite(s)

DeleteRaceSpec == Init /\ [][DeleteRaceNext]_vars

(***************************************************************************)
(* C35: when two deleteTask requests for two different existing tasks run  *)
(* concurrently and both answer 200, the Tasks sheet holds afterwards the  *)
(* rows it held before without the rows of the two tasks, and nothing else *)
(* is missing.                                                             *)
(***************************************************************************)
\* the rows without those of the ids
WithoutTasks(rows, ids) ==
    LET Kept(r) == Cell(r, 0) \notin ids
    IN SelectSeq(rows, Kept)

C35_ConcurrentDeletesRemoveOwnRows ==
    ( /\ \A s \in Slots : inflight[s].pc = "done" /\ inflight[s].code = 200
      /\ inflight[1].id # inflight[2].id
      /\ findIndex(inflight[1].rows, inflight[1].id) # -1
      /\ findIndex(inflight[1].rows, inflight[2].id) # -1 )
    => tasks = WithoutTasks(inflight[1].rows, {inflight[1].id, inflight[2].id})

\* both requests answered 200 and a third task, which neither was to
\* delete, lost its row while one of the two tasks kept its own
C35_ThirdTaskDeleted ==
    /\ \A s \in Slots : inflight[s].pc = "done" /\ inflight[s].code = 200
    /\ inflight[1].id # inflight[2].id
    /\ Len(inflight[1].rows) = 3
    /\ findIndex(inflight[1].rows, inflight[1].id) # -1
    /\ findIndex(inflight[1].rows, inflight[2].id) # -1
    /\ Len(tasks) = 1
    /\ Cell(tasks[1], 0) \in {inflight[1].id, inflight[2].id}

(***************************************************************************)
(* C36: at every step, also of a deleteProject that runs between the       *)
(* awaits of a recalcProjectProgress, no two rows of the Projects sheet    *)
(* hold the same id afterwards, and a project's row disappears or gets     *)
(* another name, owner, start or end date only in a deleteProject or an    *)
(* updateProject request for that project.                                 *)
(***************************************************************************)
NoDuplicateProjectIds(rows) ==
    \A i \in 1..Len(rows), j \in 1..Len(rows) :
        (Cell(rows[i], 0) # "" /\ Cell(rows[i], 0) = Cell(rows[j], 0)) => i = j

\* the name, owner, description and dates stored for the project
ProjectIdentity(rows, pid) ==
    << ProjectRow(rows, pid)[2], ProjectRow(rows, pid)[3],
       ProjectRow(rows, pid)[5], ProjectRow(rows, pid)[6] >>

C36_ProjectRowsKeepIdentity ==
    [][ /\ NoDuplicateProjectIds(projects')
        /\ \A i \in 1..Len(projects) :
              LET pid == Cell(projects[i], 0)
              IN ( /\ pid # ""
                   /\ \/ ~ProjectExists(projects', pid)
                      \/ ProjectIdentity(projects', pid) # ProjectIdentity(projects, pid) )
                 => ( /\ inflight' = inflight
                      /\ ret'.op \in {"deleteProject", "updateProject"}
                      /\ ret'.id = pid ) ]_vars

(***************************************************************************)
(* C37: the cascade is one-way.  An updateTask that stores a subtask with  *)
(* a status other than Completed leaves the row of its Completed parent as *)
(* it was, and a task that is Completed and is still in the sheet after a  *)
(* request is stored with another status only by an updateTask on that     *)
(* task itself.                                                            *)
(***************************************************************************)
C37_CascadeIsOneWay ==
    [][ /\ ( /\ ret'.op = "updateTask"
             /\ ret'.wrote # << >>
             /\ ~IsDone(ret'.wrote)
             /\ Cell(ret'.wrote, 10) \notin {"", ret'.id}
             /\ TaskExists(tasks, Cell(ret'.wrote, 10))
             /\ IsDone(TaskRow(tasks, Cell(ret'.wrote, 10))) )
           => TaskRow(tasks', Cell(ret'.wrote, 10)) = TaskRow(tasks, Cell(ret'.wrote, 10))
        /\ \A i \in 1..Len(tasks) :
              ( /\ IsDone(tasks[i])
                /\ TaskExists(tasks', Cell(tasks[i], 0))
                /\ ~IsDone(TaskRow(tasks', Cell(tasks[i], 0))) )
              => (ret'.op = "updateTask" /\ ret'.id = Cell(tasks[i], 0)) ]_vars

\* an updateTask stored a subtask as In Progress; its parent is Completed
\* and has another subtask, which is Completed
C37_Witness ==
    /\ ret.op = "updateTask"
    /\ ret.wrote # << >>
    /\ Cell(ret.wrote, 8) = "In Progress"
    /\ \E p \in {Cell(ret.wrote, 10)} :
          /\ p \notin {"", ret.id}
          /\ TaskExists(tasks, p)
          /\ IsDone(TaskRow(tasks, p))
          /\ \E i \in 1..Len(tasks) :
                Cell(tasks[i], 10) = p /\ Cell(tasks[i], 0) # ret.id /\ IsDone(tasks[i])

(***************************************************************************)
(* Tasks created with attachments and updated field by field.              *)
(***************************************************************************)
MaxFrameTasks == 2      \* task ids generated in one behaviour of FrameSpec
MaxFrameProjects == 1   \* project ids generated in one behaviour of FrameSpec

\* the attachment lists of the request bodies: a plain name, and a name
\* with a comma in it
FrameAttachments ==
    { << <<"u">> >>, << <<"u", ",", "v">> >>, << <<"u">>, <<"v">> >> }

\* the body b with the attachments a
WithAttachments(b, a) ==
    [f \in DOMAIN b \cup {"attachments"} |-> IF f = "attachments" THEN a ELSE b[f]]

FrameTaskBodies ==
    LET plain == { Body(c) : c \in [ title : {"T"}, projectId : {NewProjectId(1)},
                                     status : {"Not Started", "Completed"},
                                     parentTaskId : TaskIdsSoFar \cup {Absent} ] }
    IN plain \cup { WithAttachments(b, a) : b \in plain, a \in FrameAttachments }

FrameUpdateBodies ==
    LET plain == { Body(c) : c \in [ title : {"X", Absent},
                                     status : {"Completed", "In Progress", Absent} ] }
    IN plain \cup { WithAttachments(b, << <<"w">> >>) : b \in plain }

FrameNext ==
    \/ \E data \in RaceProjectBodies :
          nextProject <= MaxFrameProjects /\ createProject(data) /\ UNCHANGED <<inflight, log>>
    \/ \E body \in FrameTaskBodies :
          nextTask <= MaxFrameTasks /\ createTask(body) /\ UNCHANGED <<inflight, log>>
    \/ \E id \in TaskIdsSoFar, update \in FrameUpdateBodies :
          updateTask(id, update) /\ UNCHANGED <<inflight, log>>

FrameSpec == Init /\ [][FrameNext]_vars

(***************************************************************************)
(* C38: an updateTask request leaves the id of its task in the row it was  *)
(* in, stores for every field absent from the body the value that was      *)
(* stored and for every field of the body the value of the body, in one    *)
(* row of eleven cells, and leaves every other row as it was, but for the  *)
(* status of the cascaded parent.                                          *)
(***************************************************************************)
\* the column of each field of a task
TaskColumn ==
    [ id |-> 0, projectId |-> 1, title |-> 2, description |-> 3,
      assignedTo |-> 4, startDate |-> 5, endDate |-> 6, dueDate |-> 7,
      status |-> 8, attachments |-> 9, parentTaskId |-> 10 ]

\* the rows differ in the status cell at most
SameButStatus(before, after) ==
    /\ Len(after) = Len(before)
    /\ \A c \in 1..Len(before) : c # 9 => after[c] = before[c]

C38_UpdateTaskKeepsAbsentFields ==
    [][ \A id \in TaskIdsSoFar, update \in FrameUpdateBodies :
          (updateTask(id, update) /\ TaskExists(tasks, id))
          => LET k == findIndex(tasks, id) + 1
             IN /\ Len(tasks') = Len(tasks)
                /\ Len(tasks'[k]) = 11
                /\ tasks'[k][1] = id
                /\ \A f \in DOMAIN TaskColumn \ DOMAIN update :
                      tasks'[k][TaskColumn[f] + 1] = tasks[k][TaskColumn[f] + 1]
                /\ \A f \in DOMAIN update \ {"attachments"} :
                      tasks'[k][TaskColumn[f] + 1] = update[f]
                /\ "attachments" \in DOMAIN update
                      => tasks'[k][10] = join(update.attachments)
                /\ \A j \in 1..Len(tasks) :
                      j # k =>
                         \/ tasks'[j] = tasks[j]
                         \/ /\ tasks[j][1] = tasks[k][11]
                            /\ SameButStatus(tasks[j], tasks'[j])
                            /\ tasks'[j][9] = "Completed" ]_vars

\* the same for every field but the attachments, which are left out of the
\* fields compared
C38_OtherFieldsKept ==
    [][ \A id \in TaskIdsSoFar, update \in FrameUpdateBodies :
          (updateTask(id, update) /\ TaskExists(tasks, id))
          => LET k == findIndex(tasks, id) + 1
             IN /\ Len(tasks') = Len(tasks)
                /\ Len(tasks'[k]) = 11
                /\ tasks'[k][1] = id
                /\ \A f \in DOMAIN TaskColumn \ (DOMAIN update \cup {"attachments"}) :
                      tasks'[k][TaskColumn[f] + 1] = tasks[k][TaskColumn[f] + 1]
                /\ \A f \in DOMAIN update \ {"attachments"} :
                      tasks'[k][TaskColumn[f] + 1] = update[f]
                /\ \A j \in 1..Len(tasks) :
                      j # k =>
                         \/ tasks'[j] = tasks[j]
                         \/ /\ tasks[j][1] = tasks[k][11]
                            /\ \A c \in 1..11 : c \notin {9, 10} => tasks'[j][c] = tasks[j][c]
                            /\ tasks'[j][9] = "Completed" ]_vars

====
